---- MODULE Spec2Model ----
(***************************************************************************)
(* Model of the HTTP request logger with WebSocket fingerprint ingestion   *)
(* (src/index.js, src/unnamed/part_000): the logs table, the logging       *)
(* middleware, the routes that read the table, and the WebSocket message   *)
(* handler.  The source holds several drafts of the same server; the       *)
(* variable "variant" fixes which draft is running.                        *)
(***************************************************************************)
EXTENDS Integers, Sequences, FiniteSets, TLC

(***************************************************************************)
(* JavaScript values.  A JSON value is a tagged record; an object keeps    *)
(* its properties as a sequence of [k, v] in insertion order.              *)
(***************************************************************************)
Undefined == [t |-> "undefined"]
JNull == [t |-> "null"]
JNum(n) == [t |-> "num", n |-> n]
JStr(s) == [t |-> "str", s |-> s]
JBool(b) == [t |-> "bool", b |-> b]
JArr(a) == [t |-> "arr", a |-> a]
JObj(o) == [t |-> "obj", o |-> o]
Prop(k, v) == [k |-> k, v |-> v]

\* Text is a sequence of tokens: punctuation, string literal, number
\* literal, bare word.
P(c) == [c |-> c]
S(s) == [s |-> s]
N(n) == [n |-> n]
W(w) == [w |-> w]
EmptyText == << >>

IsP(tok, c) == "c" \in DOMAIN tok /\ tok.c = c

\* The characters of the strings the model uses (a JS string is indexable).
CharTable ==
  [s \in {"ab"} |-> <<"a", "b">>]
Chars(s) ==
  IF s \in DOMAIN CharTable THEN CharTable[s] ELSE <<s>>

RECURSIVE Stringify(_)
RECURSIVE StringifyProps(_, _)
RECURSIVE StringifyElems(_)
\* JSON.stringify of the properties of an object: a property whose value is
\* undefined is skipped.
StringifyProps(o, first) ==
  IF o = << >> THEN << >>
  ELSE IF Head(o).v = Undefined THEN StringifyProps(Tail(o), first)
  ELSE (IF first THEN << >> ELSE <<P(",")>>)
       \o <<S(Head(o).k), P(":")>> \o Stringify(Head(o).v)
       \o StringifyProps(Tail(o), FALSE)
\* JSON.stringify of the elements of an array: undefined becomes null.
StringifyElems(a) ==
  IF a = << >> THEN << >>
  ELSE (IF Head(a) = Undefined THEN <<W("null")>> ELSE Stringify(Head(a)))
       \o (IF Tail(a) = << >> THEN << >> ELSE <<P(",")>>)
       \o StringifyElems(Tail(a))
\* JSON.stringify(v) for a JSON value v.
Stringify(v) ==
  CASE v.t = "null" -> <<W("null")>>
    [] v.t = "num" -> <<N(v.n)>>
    [] v.t = "str" -> <<S(v.s)>>
    [] v.t = "bool" -> <<W(IF v.b THEN "true" ELSE "false")>>
    [] v.t = "arr" -> <<P("[")>> \o StringifyElems(v.a) \o <<P("]")>>
    [] v.t = "obj" -> <<P("{")>> \o StringifyProps(v.o, TRUE) \o <<P("}")>>

\* obj[k] = v the way JSON.parse does it: a repeated key keeps its position
\* and takes the last value.
RECURSIVE SetProp(_, _, _)
SetProp(o, k, v) ==
  IF o = << >> THEN <<Prop(k, v)>>
  ELSE IF Head(o).k = k THEN <<Prop(k, v)>> \o Tail(o)
  ELSE <<Head(o)>> \o SetProp(Tail(o), k, v)

Fail == [ok |-> FALSE]
Ok(v, i) == [ok |-> TRUE, v |-> v, i |-> i]

RECURSIVE ParseValue(_, _)
RECURSIVE ParseMembers(_, _, _)
RECURSIVE ParseElements(_, _, _)
\* After "{" or a ",": "key" ":" value, then "," or "}".
ParseMembers(x, i, acc) ==
  IF i + 1 > Len(x) \/ "s" \notin DOMAIN x[i] \/ ~IsP(x[i + 1], ":") THEN Fail
  ELSE LET r == ParseValue(x, i + 2) IN
       IF ~r.ok \/ r.i > Len(x) THEN Fail
       ELSE IF IsP(x[r.i], "}") THEN Ok(JObj(SetProp(acc, x[i].s, r.v)), r.i + 1)
       ELSE IF IsP(x[r.i], ",") THEN ParseMembers(x, r.i + 1, SetProp(acc, x[i].s, r.v))
       ELSE Fail
\* After "[" or a ",": value, then "," or "]".
ParseElements(x, i, acc) ==
  LET r == ParseValue(x, i) IN
  IF ~r.ok \/ r.i > Len(x) THEN Fail
  ELSE IF IsP(x[r.i], "]") THEN Ok(JArr(Append(acc, r.v)), r.i + 1)
  ELSE IF IsP(x[r.i], ",") THEN ParseElements(x, r.i + 1, Append(acc, r.v))
  ELSE Fail
\* One JSON value starting at token i.
ParseValue(x, i) ==
  IF i > Len(x) THEN Fail
  ELSE LET tok == x[i] IN
    IF "s" \in DOMAIN tok THEN Ok(JStr(tok.s), i + 1)
    ELSE IF "n" \in DOMAIN tok THEN Ok(JNum(tok.n), i + 1)
    ELSE IF "w" \in DOMAIN tok
      THEN (IF tok.w = "null" THEN Ok(JNull, i + 1)
            ELSE IF tok.w \in {"true", "false"} THEN Ok(JBool(tok.w = "true"), i + 1)
            ELSE Fail)
    ELSE IF IsP(tok, "{")
      THEN (IF i + 1 <= Len(x) /\ IsP(x[i + 1], "}") THEN Ok(JObj(<< >>), i + 2)
            ELSE ParseMembers(x, i + 1, << >>))
    ELSE IF IsP(tok, "[")
      THEN (IF i + 1 <= Len(x) /\ IsP(x[i + 1], "]") THEN Ok(JArr(<< >>), i + 2)
            ELSE ParseElements(x, i + 1, << >>))
    ELSE Fail
\* JSON.parse(text): the whole text must be one value; ok = FALSE stands for
\* the SyntaxError.
JsonParse(x) ==
  LET r == ParseValue(x, 1) IN
  IF r.ok /\ r.i = Len(x) + 1 THEN [ok |-> TRUE, v |-> r.v] ELSE [ok |-> FALSE]


(***************************************************************************)
(* JavaScript operations used by the handlers.                             *)
(***************************************************************************)
\* A string holding JSON text (what JSON.stringify returns, what a TEXT
\* column of serialized data holds).
Text(x) == [t |-> "text", x |-> x]

\* v in a boolean context.
Truthy(v) ==
  CASE v.t = "undefined" -> FALSE
    [] v.t = "null" -> FALSE
    [] v.t = "num" -> v.n # 0
    [] v.t = "bool" -> v.b
    [] v.t = "str" -> v.s # ""
    [] v.t = "text" -> v.x # << >>
    [] OTHER -> TRUE

\* Object.keys(v).length
KeysLength(v) ==
  CASE v.t = "obj" -> Len(v.o)
    [] v.t = "arr" -> Len(v.a)
    [] v.t = "str" -> Len(Chars(v.s))
    [] OTHER -> 0

\* o[k] for an object value o; Undefined when the key is absent.
RECURSIVE Lookup(_, _)
Lookup(o, k) ==
  IF o = << >> THEN Undefined
  ELSE IF Head(o).k = k THEN Head(o).v
  ELSE Lookup(Tail(o), k)

\* v.k: a TypeError (ok = FALSE) when v is null or undefined, undefined when
\* v has no such property.
GetProp(v, k) ==
  CASE v.t \in {"null", "undefined"} -> [ok |-> FALSE]
    [] v.t = "obj" -> [ok |-> TRUE, v |-> Lookup(v.o, k)]
    [] OTHER -> [ok |-> TRUE, v |-> Undefined]

\* The own enumerable properties of v, as the rest pattern copies them: the
\* properties of an object, the indices of an array or of a string, nothing
\* for a number.
OwnProps(v) ==
  CASE v.t = "obj" -> v.o
    [] v.t = "arr" -> [i \in 1..Len(v.a) |-> Prop(ToString(i - 1), v.a[i])]
    [] v.t = "str" ->
         [i \in 1..Len(Chars(v.s)) |-> Prop(ToString(i - 1), JStr(Chars(v.s)[i]))]
    [] OTHER -> << >>

\* The properties of o without the key k.
RECURSIVE Without(_, _)
Without(o, k) ==
  IF o = << >> THEN << >>
  ELSE IF Head(o).k = k THEN Without(Tail(o), k)
  ELSE <<Head(o)>> \o Without(Tail(o), k)

\* DestructureOrigin that throws when there is no origin to take.
DestructureRequireOrigin(v) ==
  IF v.t \in {"null", "undefined"} \/ GetProp(v, "origin").v = Undefined
    THEN [ok |-> FALSE]
  ELSE [ok |-> TRUE,
        origin |-> GetProp(v, "origin").v,
        data |-> JObj(Without(OwnProps(v), "origin"))]

\* DestructureOrigin that reads origin and keeps it in data.
DestructureKeepOrigin(v) ==
  IF v.t \in {"null", "undefined"} THEN [ok |-> FALSE]
  ELSE [ok |-> TRUE, origin |-> GetProp(v, "origin").v, data |-> JObj(OwnProps(v))]

\* const { origin, ...data } = v
DestructureOrigin(v) ==
  IF v.t \in {"null", "undefined"} THEN [ok |-> FALSE]
  ELSE [ok |-> TRUE,
        origin |-> GetProp(v, "origin").v,
        data |-> JObj(Without(OwnProps(v), "origin"))]


(***************************************************************************)
(* The drafts of the server.                                               *)
(*   "login":      src/index.js 1-358, serves only a static "/"            *)
(*   "negotiated": src/index.js 374-597 and 771-2331, part_000: "/logs" is *)
(*                 content-negotiated, listings are newest first           *)
(*   "jsonOnly":   src/index.js 611-754: "/logs" is JSON, oldest first     *)
(***************************************************************************)
Variants == {"login", "negotiated", "jsonOnly"}

(***************************************************************************)
(* HTTP side.  A request is [method, path, query, headers, raw]: raw is    *)
(* the text of the request body (empty: no body).                          *)
(***************************************************************************)
\* req.originalUrl
OriginalUrl(r) == r.path \o r.query

\* What req.body holds when the body parser did not parse anything: {} or
\* nothing at all, depending on the release of the framework.
UnparsedBodies == {JObj(<< >>), Undefined}

\* express.json(): a request without a body or without a JSON content type
\* passes untouched; otherwise the body must start with "{" or "[" and
\* parse, or the parser hands an error to the framework (next(err)).
BodyParser(r, unparsed) ==
  LET ct == Lookup(r.headers.o, "content-type") IN
  IF r.raw = EmptyText \/ ct # JStr("application/json")
    THEN [err |-> FALSE, body |-> unparsed]
  ELSE IF ~(IsP(r.raw[1], "{") \/ IsP(r.raw[1], "["))
    THEN [err |-> TRUE]
  ELSE LET pr == JsonParse(r.raw) IN
       IF pr.ok THEN [err |-> FALSE, body |-> pr.v] ELSE [err |-> TRUE]

\* req.accepts('html')
AcceptsHtml(r) ==
  LET a == Lookup(r.headers.o, "accept") IN
  a = Undefined \/ a \in {JStr("text/html"), JStr("*/*")}

\* HeadersStr that turns the headers into a string as String() does.
HeadersStrToString(headers) == Text(<<W("[object"), W("Object]")>>)

\* headersStr of the logging middleware
HeadersStr(headers) == Text(Stringify(headers))

\* BodyStr that tests the body alone, not its keys.
BodyStrTruthy(body) ==
  IF Truthy(body) THEN Text(Stringify(body)) ELSE Text(EmptyText)

\* bodyStr of the logging middleware
BodyStr(body) ==
  IF Truthy(body) /\ KeysLength(body) > 0 THEN Text(Stringify(body))
  ELSE Text(EmptyText)

\* LoggerParams that logs req.path, which has no query string.
LoggerParamsPath(r, body, ts) ==
  [method |-> JStr(r.method), url |-> JStr(r.path),
   headers |-> HeadersStr(r.headers), body |-> BodyStr(body), timestamp |-> ts]

\* The parameters of the middleware's INSERT.
LoggerParams(r, body, ts) ==
  [method |-> JStr(r.method), url |-> JStr(OriginalUrl(r)),
   headers |-> HeadersStr(r.headers), body |-> BodyStr(body), timestamp |-> ts]

\* LoggingMiddleware that calls next() from the callback of its INSERT.
LoggingMiddlewareAwait(v, r, body, ts) ==
  [run |-> <<[params |-> LoggerParams(r, body, ts), cb |-> TRUE]>>,
   next |-> FALSE]

\* The logging middleware: the db.run calls it makes (with an error callback
\* only in the JSON-only draft) and whether it calls next() before returning.
LoggingMiddleware(v, r, body, ts) ==
  [run |-> <<[params |-> LoggerParams(r, body, ts), cb |-> (v = "jsonOnly")]>>,
   next |-> TRUE]

\* ORDER BY of the listing query.
ListOrder(v) == IF v = "jsonOnly" THEN "ASC" ELSE "DESC"

NotFound == [status |-> 404, type |-> "html"]
BadRequest == [status |-> 400, type |-> "html"]
RobotsTxt == [status |-> 200, type |-> "text"]
LoginPage == [status |-> 200, type |-> "html"]

\* ReadError that answers 200 with an empty listing.
ReadErrorEmptyList(r) ==
  [status |-> 200, type |-> "json", list |-> << >>]

\* What the callback of db.all answers when the query failed: "/logs" sends
\* the error as JSON, "/" sends a line of text.
ReadError(r) ==
  IF r.path = "/logs" THEN [status |-> 500, type |-> "json"]
  ELSE [status |-> 500, type |-> "text"]

\* The route a request reaches after the middleware: either a response sent
\* at once (send), or a db.all whose callback will answer (view).
Route(v, r) ==
  IF r.method # "GET" THEN [send |-> TRUE, resp |-> NotFound]
  ELSE IF r.path = "/robots.txt" /\ v # "login"
    THEN [send |-> TRUE, resp |-> RobotsTxt]
  ELSE IF r.path = "/" /\ v = "login"
    THEN [send |-> TRUE, resp |-> LoginPage]
  ELSE IF r.path = "/" /\ v # "login"
    THEN [send |-> FALSE, view |-> "html"]
  ELSE IF r.path = "/logs" /\ v = "jsonOnly"
    THEN [send |-> FALSE, view |-> "json"]
  ELSE IF r.path = "/logs" /\ v = "negotiated"
    THEN [send |-> FALSE, view |-> IF AcceptsHtml(r) THEN "html" ELSE "json"]
  ELSE [send |-> TRUE, resp |-> NotFound]

(***************************************************************************)
(* The logs table.                                                         *)
(***************************************************************************)
SqlNull == JNull

\* How the driver binds a JavaScript value to a parameter of a TEXT column:
\* a string as it is, undefined and null as NULL, a number as its decimal
\* text, any other object as the text of toString().
BindParam(v) ==
  CASE v.t \in {"str", "text"} -> v
    [] v.t \in {"undefined", "null"} -> SqlNull
    [] v.t = "num" -> JStr(ToString(v.n))
    [] v.t = "obj" -> JStr("[object Object]")

\* NextId that hands out the largest id again (a table without AUTOINCREMENT
\* bookkeeping).
NextIdReuse(seq) == IF seq = 0 THEN 1 ELSE seq

\* The id an INTEGER PRIMARY KEY AUTOINCREMENT column gives the next row:
\* one more than the largest id ever given.
NextId(seq) == seq + 1

\* The row an INSERT stores.
NewRow(id, p) ==
  [id |-> id, method |-> BindParam(p.method), url |-> BindParam(p.url),
   headers |-> BindParam(p.headers), body |-> BindParam(p.body),
   timestamp |-> p.timestamp]

\* InsertRow that keeps the table to its newest row (a log that rotates).
InsertRowRotate(table, row) == <<row>>

\* INSERT INTO logs: the table with the new row after the rows it had.
InsertRow(table, row) == Append(table, row)

RECURSIVE Reverse(_)
Reverse(q) == IF q = << >> THEN << >> ELSE Append(Reverse(Tail(q)), Head(q))

\* A row put at its place in a sequence of rows of ascending timestamp.
RECURSIVE InsertByTimestamp(_, _)
InsertByTimestamp(q, r) ==
  IF q = << >> THEN <<r>>
  ELSE IF r.timestamp < Head(q).timestamp THEN <<r>> \o q
  ELSE <<Head(q)>> \o InsertByTimestamp(Tail(q), r)

RECURSIVE SortByTimestamp(_)
SortByTimestamp(q) ==
  IF q = << >> THEN << >>
  ELSE InsertByTimestamp(SortByTimestamp(SubSeq(q, 1, Len(q) - 1)), q[Len(q)])

\* SelectAll with ORDER BY timestamp.
SelectAllByTimestamp(table, order) ==
  LET cols == [i \in 1..Len(table) |->
                 [method |-> table[i].method, url |-> table[i].url,
                  headers |-> table[i].headers, body |-> table[i].body,
                  timestamp |-> table[i].timestamp]]
  IN IF order = "DESC" THEN Reverse(SortByTimestamp(cols)) ELSE SortByTimestamp(cols)

\* SelectAll that lists the newest row only (ORDER BY id DESC LIMIT 1).
SelectAllLatest(table, order) ==
  IF table = << >> THEN << >>
  ELSE LET r == table[Len(table)] IN
       <<[method |-> r.method, url |-> r.url, headers |-> r.headers,
          body |-> r.body, timestamp |-> r.timestamp]>>

\* SelectAll that lists the fingerprints only (WHERE method = 'WS').
SelectAllFingerprints(table, order) ==
  LET cols == [i \in 1..Len(table) |->
                 [method |-> table[i].method, url |-> table[i].url,
                  headers |-> table[i].headers, body |-> table[i].body,
                  timestamp |-> table[i].timestamp]]
      ws == SelectSeq(cols, LAMBDA c : c.method = JStr("WS"))
  IN IF order = "DESC" THEN Reverse(ws) ELSE ws

\* SELECT method,url,headers,body,timestamp FROM logs ORDER BY id [DESC]
\* over a table whose rows are kept in id order.
SelectAll(table, order) ==
  LET cols == [i \in 1..Len(table) |->
                 [method |-> table[i].method, url |-> table[i].url,
                  headers |-> table[i].headers, body |-> table[i].body,
                  timestamp |-> table[i].timestamp]]
  IN IF order = "DESC" THEN Reverse(cols) ELSE cols

\* JSON.parse(r.headers || '{}')
ReparseHeaders(h) ==
  IF Truthy(h) THEN JsonParse(h.x) ELSE [ok |-> TRUE, v |-> JObj(<< >>)]

\* r.body ? JSON.parse(r.body) : {}
ReparseBody(b) ==
  IF Truthy(b) THEN JsonParse(b.x) ELSE [ok |-> TRUE, v |-> JObj(<< >>)]

\* One entry of the JSON listing (rows.map of the JSON branch).
JsonEntry(r) ==
  [method |-> r.method, url |-> r.url, headers |-> ReparseHeaders(r.headers).v,
   body |-> ReparseBody(r.body).v, timestamp |-> r.timestamp]

\* The callback of db.all without a storage error: ok = FALSE when a
\* JSON.parse in rows.map throws.
Render(view, rows) ==
  IF \E i \in 1..Len(rows) :
       ~ReparseHeaders(rows[i].headers).ok
       \/ (Truthy(rows[i].body) /\ ~JsonParse(rows[i].body.x).ok)
    THEN [ok |-> FALSE]
  ELSE [ok |-> TRUE,
        resp |-> [status |-> 200, type |-> view,
                  list |-> [i \in 1..Len(rows) |-> JsonEntry(rows[i])]]]


(***************************************************************************)
(* WebSocket side.                                                         *)
(***************************************************************************)
EmptyObjectText == Text(<<P("{"), P("}")>>)

\* WsParams that tags the row as an HTTP request.
WsParamsUntagged(origin, data, ts) ==
  [method |-> JStr("POST"), url |-> origin, headers |-> Text(<<P("{"), P("}")>>),
   body |-> Text(Stringify(data)), timestamp |-> ts]

\* WsParams that takes the time the client put in the payload, when it did.
WsParamsClientStamp(origin, data, ts) ==
  [method |-> JStr("WS"), url |-> origin, headers |-> Text(<<P("{"), P("}")>>),
   body |-> Text(Stringify(data)),
   timestamp |-> IF Lookup(data.o, "timestamp") = Undefined THEN ts
                 ELSE Lookup(data.o, "timestamp").n]

\* WsParams with the time at which the server started.
WsParamsStale(origin, data, ts) ==
  [method |-> JStr("WS"), url |-> origin, headers |-> Text(<<P("{"), P("}")>>),
   body |-> Text(Stringify(data)), timestamp |-> 0]

\* The parameters of the handler's INSERT in the drafts that take origin out
\* of the payload.
WsParams(origin, data, ts) ==
  [method |-> JStr("WS"), url |-> origin, headers |-> EmptyObjectText,
   body |-> Text(Stringify(data)), timestamp |-> ts]

\* The parameters of the handler's INSERT in the JSON-only draft:
\* JSON.stringify(msg.data) is undefined when msg.data is.
WsParamsFixedUrl(data, ts) ==
  [method |-> JStr("WS"), url |-> JStr("/fingerprint"), headers |-> EmptyObjectText,
   body |-> IF data = Undefined THEN Undefined ELSE Text(Stringify(data)),
   timestamp |-> ts]

\* Caught that ends the connection.
CaughtClose == [run |-> << >>, threw |-> TRUE, close |-> TRUE, sends |-> 0]

\* What the handler does when its try block throws: the catch writes to the
\* console, issues nothing and leaves the socket alone.
Caught == [run |-> << >>, threw |-> TRUE, close |-> FALSE, sends |-> 0]
\* What the handler does with a message of another type: nothing.
Ignored == [run |-> << >>, threw |-> FALSE, close |-> FALSE, sends |-> 0]

\* WsHandler that answers every message with an acknowledgment.
WsHandlerAck(v, message, ts) == [Ignored EXCEPT !.sends = 1]

\* ws.on('message'): the db.run calls the handler makes for one message,
\* whether its try block threw, whether it closed the socket, and how many
\* messages it sent to the client (no handler calls ws.send).
WsHandler(v, message, ts) ==
  LET pr == JsonParse(message) IN
  IF ~pr.ok THEN Caught
  ELSE LET type == GetProp(pr.v, "type") IN
    IF ~type.ok THEN Caught
    ELSE IF type.v # JStr("fingerprint") THEN Ignored
    ELSE LET data == GetProp(pr.v, "data").v IN
      IF v = "jsonOnly"
        THEN [run |-> <<[params |-> WsParamsFixedUrl(data, ts), cb |-> FALSE]>>,
              threw |-> FALSE, close |-> FALSE, sends |-> 0]
      ELSE LET d == DestructureOrigin(data) IN
        IF ~d.ok THEN Caught
        ELSE [run |-> <<[params |-> WsParams(d.origin, d.data, ts), cb |-> FALSE]>>,
              threw |-> FALSE, close |-> FALSE, sends |-> 0]


(***************************************************************************)
(* Bounds and inputs.                                                      *)
(***************************************************************************)
MaxInputs == 2
MaxChan == 2
MaxPages == 2

Pages == 1..MaxPages

Channels == 1..MaxChan

Req(method, path, query, headers, raw) ==
  [method |-> method, path |-> path, query |-> query, headers |-> JObj(headers),
   raw |-> raw]

AcceptHtml == <<Prop("accept", JStr("text/html"))>>
AcceptJson == <<Prop("accept", JStr("application/json"))>>
JsonBody == <<Prop("content-type", JStr("application/json"))>>
PlainBody == <<Prop("content-type", JStr("text/plain"))>>

\* Scenario A: the log page.
GetRoot == Req("GET", "/", "", AcceptHtml, EmptyText)
\* The JSON listing.
GetLogsJson == Req("GET", "/logs", "", AcceptJson, EmptyText)
\* The HTML listing at /logs.
GetLogsHtml == Req("GET", "/logs", "", AcceptHtml, EmptyText)
GetRobots == Req("GET", "/robots.txt", "", << >>, EmptyText)
\* Scenario C: a POST to a path with no route, with a JSON object as body.
PostObject ==
  Req("POST", "/submit", "", JsonBody,
      Stringify(JObj(<<Prop("a", JArr(<<JNum(1), JNull>>))>>)))
\* The same with a query string and the body {}, with the body [], with a
\* body that is not declared as JSON, and with JSON cut short.
PostEmptyObject == Req("POST", "/submit", "?x=1", JsonBody, Stringify(JObj(<< >>)))
PostEmptyArray == Req("POST", "/submit", "", JsonBody, Stringify(JArr(<< >>)))
PostPlain == Req("POST", "/submit", "", PlainBody, <<W("not"), W("json")>>)
PostTruncated == Req("POST", "/submit", "", JsonBody, <<P("{"), S("a"), P(":")>>)

\* The requests clients send.
Requests ==
  { GetRoot, GetLogsJson, GetRobots, PostObject, PostEmptyObject, PostEmptyArray,
    PostPlain, PostTruncated }

Envelope(data) ==
  Stringify(JObj(<<Prop("type", JStr("fingerprint")), Prop("data", data)>>))

ScenarioB ==
  JObj(<<Prop("origin", JStr("/")), Prop("userAgent", JStr("X")),
         Prop("screen", JObj(<<Prop("width", JNum(1920))>>))>>)

\* Payloads: objects with and without origin, with an origin that is not a
\* string, and values that are not objects.
Payloads ==
  { ScenarioB,
    JObj(<<Prop("userAgent", JStr("X"))>>),
    JObj(<<Prop("origin", JNum(7)), Prop("userAgent", JStr("X"))>>),
    JArr(<<JNum(1), JStr("X")>>),
    JStr("ab"),
    JNum(5),
    JNull }

\* The payload of the login page, which carries the client's own timestamp,
\* sent at two client times (a time is the reading of a clock, as now is).
StampedA ==
  JObj(<<Prop("origin", JStr("/")), Prop("userAgent", JStr("X")),
         Prop("timestamp", JNum(7))>>)
StampedB ==
  JObj(<<Prop("origin", JStr("/")), Prop("userAgent", JStr("X")),
         Prop("timestamp", JNum(9))>>)
StampedMessages == { Envelope(StampedA), Envelope(StampedB) }

\* A POST whose body carries a timestamp.
PostStamped ==
  Req("POST", "/submit", "", JsonBody,
      Stringify(JObj(<<Prop("timestamp", JNum(9))>>)))

\* Fingerprint envelopes, one for each payload.
PayloadMessages == { Envelope(p) : p \in Payloads }

NotJson == <<W("not"), W("json")>>
Ping == Stringify(JObj(<<Prop("type", JStr("ping"))>>))
NoData == Stringify(JObj(<<Prop("type", JStr("fingerprint"))>>))

\* The texts that carry no usable fingerprint: text that is not JSON, another
\* type, null, an envelope without data, an envelope whose data is null.
UnusableMessages == { NotJson, Ping, Stringify(JNull), NoData, Envelope(JNull) }

\* The texts clients send over a channel.
Messages == UnusableMessages \cup { Envelope(ScenarioB) }

\* A POST whose JSON body holds a boolean; envelopes whose data is a
\* boolean or holds one.
PostFlag ==
  Req("POST", "/submit", "", JsonBody, Stringify(JObj(<<Prop("ok", JBool(TRUE))>>)))
FlagMessages ==
  { Envelope(JBool(TRUE)), Envelope(JObj(<<Prop("webdriver", JBool(FALSE))>>)) }

\* Every request and every text of the model.
AnyRequests == Requests \cup {GetLogsHtml, PostFlag}
AnyMessages == Messages \cup PayloadMessages \cup FlagMessages

\* The requests and messages of the scenarios: the log page, a POST to a
\* path with no route, a fingerprint, and a message of another type.
CoreRequests == { GetRoot, PostObject }

CoreMessages == { Envelope(ScenarioB), Ping }

(***************************************************************************)
(* State.                                                                  *)
(***************************************************************************)
VARIABLES
  variant,    \* the draft of the server that runs
  running,    \* the server process is alive
  now,        \* the server's clock
  logs,       \* the rows of the logs table, in insertion order
  autoinc,    \* the largest id the table has given (sqlite_sequence)
  pending,    \* statements issued to the driver and not yet executed
  nissued,    \* number of statements issued so far
  http,       \* one entry per HTTP request received
  chan,       \* the WebSocket connections
  wslast,     \* the last message received on a channel, how many were, and
              \* how many messages the server has sent to its clients
  prov,       \* for each row: the handler and the statement that wrote it
  failed,     \* the statements that failed with a storage error
  page,       \* the pages browsers have loaded, with their sockets
  col,        \* the collector script of one page: its worker, timers, socket
  sess        \* the objects explorer of one browser: its stored sessions

vars == <<variant, running, now, logs, autoinc, pending, nissued, http, chan,
          wslast, prov, failed, page, col, sess>>

\* A page no browser has loaded yet.  A loaded page has the timers its
\* script has set, the sockets it has created, in order, and, on the login
\* page, whether the user has typed and clicked and how many submits the
\* page took for a human's.
NoPage ==
  [st |-> "none", timers |-> 0, socks |-> << >>, typed |-> FALSE,
   clicked |-> FALSE, submits |-> 0, view |-> 0]

\* A socket the page has created and that is not open yet; c is the server's
\* channel once it is open, sent the messages the page has sent over it, n
\* the number of its message among those the server received.
NewSocket == [st |-> "connecting", c |-> 0, sent |-> 0, n |-> 0]

\* The collector before the script of the page has run.
NoCollector ==
  [st |-> "none", draft |-> "none", env |-> [x \in {} |-> TRUE], fp |-> << >>,
   sw |-> << >>, worker |-> "none", timers |-> {}, sock |-> "none",
   sent |-> << >>, events |-> << >>]

\* The explorer in a browser that has never stored a session: getItem
\* gives null.  now is the browser's clock, saved the sessions the page has
\* stored, oldest first.
NoSessions == [item |-> JNull, now |-> 0, saved |-> << >>]

NoResp == [status |-> 0, type |-> "none"]

\* A channel is a connection slot: free (no connection, or one that was
\* closed) or open.  For an open channel, seen tells what it has carried:
\* nothing discarded ("clean"), a discarded message ("discarded"), a message
\* ingested after a discarded one ("recovered").
NoChannel == [st |-> "free", seen |-> "clean"]
OpenChannel == [st |-> "open", seen |-> "clean"]

Init ==
  /\ variant \in Variants
  /\ running = TRUE
  /\ now = 0
  /\ logs = << >>
  /\ autoinc = 0
  /\ pending = {}
  /\ nissued = 0
  /\ http = << >>
  /\ chan = [c \in Channels |-> NoChannel]
  /\ wslast = [n |-> 0, out |-> 0]
  /\ prov = << >>
  /\ failed = {}
  /\ page = [p \in Pages |-> NoPage]
  /\ col = NoCollector
  /\ sess = NoSessions

\* How far the clock has moved since the previous input when one arrives:
\* not at all, or on.  The clock starts with the first input.
Delays == IF http = << >> /\ wslast.n = 0 THEN {0} ELSE {0, 1}

\* The statements a handler issues, numbered in issue order; from tells the
\* input that made the handler run and the server's time when it arrived.
Issue(run, src, from) ==
  { [op |-> nissued + i, kind |-> "run", params |-> run[i].params,
     cb |-> run[i].cb, src |-> src, from |-> from] : i \in 1..Len(run) }

\* The requests that have their response.
Answered == { k \in 1..Len(http) : http[k].resp # NoResp }

(***************************************************************************)
(* Actions.                                                                *)
(***************************************************************************)
\* An HTTP request arrives with its body read, dt after the previous input.
\* The body parser runs first;
\* when it hands an error to the framework, the middleware and the routes,
\* which take no error, are skipped and the framework answers 400.
\* Otherwise the logging middleware runs and, when it calls next(), the route
\* runs in the same turn.  A read remembers how many rows the table had when
\* it was issued, a request which requests had been answered when it came.
HttpRequest(r, unparsed, dt) ==
  /\ running
  /\ Len(http) + wslast.n < MaxInputs
  /\ LET i == Len(http) + 1
         bp == BodyParser(r, unparsed)
     IN IF bp.err
        THEN /\ http' = Append(http, [req |-> r, observed |-> 0, routed |-> FALSE,
                                      resp |-> BadRequest, after |-> Answered])
             /\ UNCHANGED <<col, sess, pending, nissued>>
        ELSE LET mw == LoggingMiddleware(variant, r, bp.body, now + dt)
                 runs == Issue(mw.run, "http", [i |-> i, at |-> now + dt])
                 rt == Route(variant, r)
                 reads == IF mw.next /\ ~rt.send
                          THEN {[op |-> nissued + Len(mw.run) + 1, kind |-> "all",
                                 order |-> ListOrder(variant), view |-> rt.view,
                                 req |-> i, had |-> Len(logs)]}
                          ELSE {}
             IN /\ http' = Append(http,
                     [req |-> r, observed |-> Len(mw.run), routed |-> mw.next,
                      resp |-> IF mw.next /\ rt.send THEN rt.resp ELSE NoResp,
                      after |-> Answered])
                /\ pending' = pending \cup runs \cup reads
                /\ nissued' = nissued + Len(mw.run) + Cardinality(reads)
  /\ now' = now + dt
  /\ UNCHANGED <<col, sess, page, variant, running, logs, autoinc, chan, wslast, prov, failed>>

\* The driver executes a pending INSERT.
ExecRun(o) ==
  /\ running
  /\ o \in pending /\ o.kind = "run"
  /\ logs' = InsertRow(logs, NewRow(NextId(autoinc), o.params))
  /\ autoinc' = NextId(autoinc)
  /\ prov' = Append(prov, [src |-> o.src, op |-> o.op, from |-> o.from])
  /\ pending' = pending \ {o}
  /\ UNCHANGED <<col, sess, page, variant, running, now, nissued, http, chan, wslast, failed>>

\* A pending INSERT fails with a storage error.  With a callback the error is
\* written to the console; without one the driver emits an 'error' event that
\* nothing listens to, which ends the process.
FailRun(o) ==
  /\ running
  /\ o \in pending /\ o.kind = "run"
  /\ pending' = pending \ {o}
  /\ failed' = failed \cup {o.op}
  /\ running' = o.cb
  /\ UNCHANGED <<col, sess, page, variant, now, logs, autoinc, nissued, http, chan, wslast, prov>>

\* The driver executes a pending SELECT and calls the route's callback, which
\* renders the rows and answers; a JSON.parse that throws in the callback is
\* caught by nothing.
ExecAll(o) ==
  /\ running
  /\ o \in pending /\ o.kind = "all"
  /\ LET rd == Render(o.view, SelectAll(logs, o.order)) IN
       IF rd.ok
       THEN /\ http' = [http EXCEPT ![o.req].resp = rd.resp]
            /\ UNCHANGED running
       ELSE /\ running' = FALSE
            /\ UNCHANGED http
  /\ pending' = pending \ {o}
  /\ UNCHANGED <<col, sess, page, variant, now, logs, autoinc, nissued, chan, wslast, prov, failed>>

\* A pending SELECT fails with a storage error: the callback answers 500.
FailAll(o) ==
  /\ running
  /\ o \in pending /\ o.kind = "all"
  /\ http' = [http EXCEPT ![o.req].resp = ReadError(http[o.req].req)]
  /\ pending' = pending \ {o}
  /\ failed' = failed \cup {o.op}
  /\ UNCHANGED <<col, sess, page, variant, running, now, logs, autoinc, nissued, chan, wslast, prov>>

\* A client opens a channel (the free slot of lowest number: slots are
\* interchangeable).
WsConnect(c) ==
  /\ running
  /\ chan[c].st = "free"
  /\ \A d \in Channels : d < c => chan[d].st # "free"
  /\ chan' = [chan EXCEPT ![c] = OpenChannel]
  /\ UNCHANGED <<col, sess, variant, running, now, logs, autoinc, pending, nissued, http,
                 wslast, prov, failed>>

\* A message arrives on an open channel, dt after the previous input.
WsMessage(c, message, dt) ==
  /\ running
  /\ chan[c].st = "open"
  /\ Len(http) + wslast.n < MaxInputs
  /\ LET h == WsHandler(variant, message, now + dt)
         n == wslast.n + 1
     IN /\ pending' = pending \cup Issue(h.run, "ws", [n |-> n, message |-> message, at |-> now + dt])
        /\ nissued' = nissued + Len(h.run)
        /\ chan' = [chan EXCEPT ![c] =
                      IF h.close THEN NoChannel
                      ELSE [st |-> "open",
                            seen |-> IF h.run = << >> THEN "discarded"
                                     ELSE IF @.seen = "clean" THEN "clean"
                                     ELSE "recovered"]]
        /\ wslast' = [n |-> n, message |-> message, out |-> wslast.out + h.sends]
  /\ now' = now + dt
  /\ UNCHANGED <<col, sess, variant, running, logs, autoinc, http, prov, failed>>

\* The client closes its channel.
WsClose(c) ==
  /\ running
  /\ chan[c].st = "open"
  /\ chan' = [chan EXCEPT ![c] = NoChannel]
  /\ UNCHANGED <<col, sess, variant, running, now, logs, autoinc, pending, nissued, http,
                 wslast, prov, failed>>

(***************************************************************************)
(* The pages.  The script of a page builds the fingerprint and creates a   *)
(* WebSocket whose onopen handler sends the envelope:                      *)
(*   login page (src/index.js 246-323): on load, after a timeout;  again   *)
(*     on every form submit of a user who typed and clicked; the handler   *)
(*     closes the socket after sending;                                    *)
(*   log pages: after a timeout (src/index.js 1240-1243) or at once        *)
(*     (src/index.js 720-721); the socket stays open.                      *)
(***************************************************************************)
\* What the script of the page has done when the page has loaded: the
\* sockets it created at once and the timeouts it set to create one.
PageScriptBoth(v) == [sockets |-> 1, timers |-> 1]

PageScript(v) ==
  IF v = "jsonOnly" THEN [sockets |-> 1, timers |-> 0]
  ELSE [sockets |-> 0, timers |-> 1]

\* The text ws.onopen sends: JSON.stringify({type: 'fingerprint', data: fp});
\* the fingerprint of the login page carries the client's time.
PageMessage(v) == IF v = "login" THEN Envelope(StampedA) ELSE Envelope(ScenarioB)

\* The sockets all pages have created.
SocketsCreated ==
  LET RECURSIVE Sum(_)
      Sum(n) == IF n = 0 THEN 0 ELSE Len(page[n].socks) + page[n].timers + Sum(n - 1)
  IN Sum(MaxPages)

\* A browser loads the page "/" and runs its script.
PageLoad(p) ==
  /\ running
  /\ page[p].st = "none"
  /\ \A q \in Pages : q < p => page[q].st # "none"
  /\ SocketsCreated < MaxInputs
  /\ LET ps == PageScript(variant) IN
       page' = [page EXCEPT ![p] =
                  [@ EXCEPT !.st = "loaded", !.timers = ps.timers,
                            !.socks = [i \in 1..ps.sockets |-> NewSocket]]]
  /\ UNCHANGED <<col, sess, variant, running, now, logs, autoinc, pending, nissued, http, chan,
                 wslast, prov, failed>>

\* The timeout of the script fires: the page creates its socket.
TimerFires(p) ==
  /\ page[p].timers > 0
  /\ page' = [page EXCEPT ![p] =
                [@ EXCEPT !.timers = @ - 1, !.socks = Append(@, NewSocket)]]
  /\ UNCHANGED <<col, sess, variant, running, now, logs, autoinc, pending, nissued, http, chan,
                 wslast, prov, failed>>

\* The user of the login page presses a key in a field, or clicks.
UserActs(p, what) ==
  /\ variant = "login"
  /\ page[p].st = "loaded"
  /\ page' = [page EXCEPT ![p] =
                IF what = "key" THEN [@ EXCEPT !.typed = TRUE]
                ELSE [@ EXCEPT !.clicked = TRUE]]
  /\ UNCHANGED <<col, sess, variant, running, now, logs, autoinc, pending, nissued, http, chan,
                 wslast, prov, failed>>

\* The form of the login page is submitted: a user who typed and clicked is
\* taken for a human and the page sends its detection data on a new socket;
\* otherwise the page only warns.
Submit(p) ==
  /\ variant = "login"
  /\ page[p].st = "loaded"
  /\ SocketsCreated < MaxInputs
  /\ page' = [page EXCEPT ![p] =
                IF @.typed /\ @.clicked
                THEN [@ EXCEPT !.submits = @ + 1, !.socks = Append(@, NewSocket)]
                ELSE @]
  /\ UNCHANGED <<col, sess, variant, running, now, logs, autoinc, pending, nissued, http, chan,
                 wslast, prov, failed>>

\* A socket of a page connects: the server has a new channel, and onopen
\* sends the envelope.
SocketOpens(p, s) ==
  /\ s \in 1..Len(page[p].socks)
  /\ page[p].socks[s].st = "connecting"
  /\ \E c \in Channels :
       /\ WsConnect(c)
       /\ page' = [page EXCEPT ![p].socks[s] = [st |-> "sent", c |-> c, sent |-> 1, n |-> 0]]

\* The envelope a socket sent reaches the server.
Deliver(p, s, dt) ==
  /\ s \in 1..Len(page[p].socks)
  /\ page[p].socks[s].st = "sent"
  /\ WsMessage(page[p].socks[s].c, PageMessage(variant), dt)
  /\ page' = [page EXCEPT ![p].socks[s].st = "delivered",
                          ![p].socks[s].n = wslast.n + 1]

\* The close the login page asked for right after sending reaches the server.
SocketCloses(p, s) ==
  /\ variant = "login"
  /\ s \in 1..Len(page[p].socks)
  /\ page[p].socks[s].st = "delivered"
  /\ WsClose(page[p].socks[s].c)
  /\ page' = [page EXCEPT ![p].socks[s].st = "closed"]

\* The fingerprint that always gives "/" as its origin.
ViewPayloadRoot(v, path) ==
  JObj(<<Prop("origin", JStr("/")), Prop("userAgent", JStr("X"))>>)

\* The fingerprint the script embedded in the page served at path builds:
\* origin is location.pathname; the page of the JSON-only draft sends no
\* origin.
ViewPayload(v, path) ==
  IF v = "login" THEN StampedA
  ELSE IF v = "jsonOnly" THEN JObj(<<Prop("userAgent", JStr("X"))>>)
  ELSE JObj(<<Prop("origin", JStr(path)), Prop("userAgent", JStr("X"))>>)

\* The browser shows the HTML page request i was answered with and runs
\* its script, up to the moment its socket has connected and onopen has
\* sent the envelope (what PageLoad, TimerFires and SocketOpens do one
\* after the other, in one step: nothing of it depends on the server).
ViewLoads(p, i) ==
  /\ i \in 1..Len(http)
  /\ http[i].resp.status = 200 /\ http[i].resp.type = "html"
  /\ page[p].st = "none"
  /\ \A q \in Pages : (q < p => page[q].st # "none") /\ page[q].view # i
  /\ \E c \in Channels :
       /\ WsConnect(c)
       /\ LET ps == PageScript(variant) IN
            page' = [page EXCEPT ![p] =
                       [@ EXCEPT !.st = "loaded", !.view = i,
                                 !.socks = [k \in 1..(ps.sockets + ps.timers) |->
                                              [st |-> "sent", c |-> c, sent |-> 1, n |-> 0]]]]

\* The envelope the socket of a shown page sent reaches the server.
DeliverView(p, s, dt) ==
  /\ page[p].view > 0
  /\ s \in 1..Len(page[p].socks)
  /\ page[p].socks[s].st = "sent"
  /\ WsMessage(page[p].socks[s].c,
               Envelope(ViewPayload(variant, http[page[p].view].req.path)), dt)
  /\ page' = [page EXCEPT ![p].socks[s].st = "delivered",
                          ![p].socks[s].n = wslast.n + 1]

\* A socket of a page fails to connect.  The page gave it an onopen handler
\* and nothing else: nothing runs.
SocketFails(p, s) ==
  /\ s \in 1..Len(page[p].socks)
  /\ page[p].socks[s].st = "connecting"
  /\ page' = [page EXCEPT ![p].socks[s].st = "failed"]
  /\ UNCHANGED <<col, sess, variant, running, now, logs, autoinc, pending, nissued, http, chan,
                 wslast, prov, failed>>

\* The connection of a socket breaks before the envelope it sent reaches the
\* server's handler: the server's channel is gone, and nothing runs in the
\* page, which gave the socket no onclose and no onerror handler.
MessageLost(p, s) ==
  /\ s \in 1..Len(page[p].socks)
  /\ page[p].socks[s].st = "sent"
  /\ page' = [page EXCEPT ![p].socks[s].st = "lost"]
  /\ chan' = [chan EXCEPT ![page[p].socks[s].c] = NoChannel]
  /\ UNCHANGED <<col, sess, variant, running, now, logs, autoinc, pending, nissued, http,
                 wslast, prov, failed>>

(***************************************************************************)
(* The collector: the script of a log page.  It sets up the SharedWorker   *)
(* sub-collection, builds the fingerprint object fp, whose sharedWorker    *)
(* property is the very object the worker's handlers write to, and opens   *)
(* the channel, whose onopen handler serializes fp.  Two drafts:           *)
(*   "deadline" (src/index.js 854-1243, 1273-1662): a 5 s timeout marks a  *)
(*     silent worker as failed, the socket is created after 1 s;           *)
(*   "immediate" (part_000 99-500, 530-931): no timeout, the socket is     *)
(*     created by the script itself.                                       *)
(***************************************************************************)
CollectorDrafts == {"deadline", "immediate"}

\* What the browser offers: a 2D canvas context, cookies that decode, the
\* CSS object, the SharedWorker constructor, WebGL.
Sources == {"canvas2d", "cookies", "css", "worker", "webgl"}
Envs == [Sources -> BOOLEAN]

Threw == [ok |-> FALSE]
Value(v) == [ok |-> TRUE, v |-> v]

\* getCanvasFingerprint(): getContext('2d') is null without a 2D context and
\* the next statement, ctx.textBaseline = 'top', throws a TypeError.
GetCanvasFingerprint(env) ==
  IF env["canvas2d"] THEN Value(JStr("data:image/png")) ELSE Threw

\* parseCookies(document.cookie): decodeURIComponent throws a URIError on a
\* value that cannot be decoded.
ParseCookies(env) ==
  IF env["cookies"] THEN Value(JObj(<<Prop("sid", JStr("1"))>>)) ELSE Threw

\* workerSupport: typeof guards SharedWorker; 'worklet' in CSS throws a
\* ReferenceError when there is no CSS object.
WorkerSupport(env) ==
  IF env["css"]
    THEN Value(JObj(<<Prop("sharedWorker", JBool(env["worker"])),
                      Prop("worklet", JBool(FALSE))>>))
  ELSE Threw

\* graphicsInfo.webgl: its own try/catch, 'unsupported' without a context.
WebGl(env) ==
  IF env["webgl"] THEN JObj(<<Prop("vendor", JStr("unknown"))>>)
  ELSE JStr("unsupported")

\* The try block that sets the worker up: the object sharedWorkerFingerprint
\* it leaves, and whether a worker was started.
SharedWorkerSetup(draft, env) ==
  IF env["worker"]
    THEN [sw |-> <<Prop("supported", JBool(TRUE)),
                   Prop("constructor", JStr("SharedWorker"))>>,
          started |-> TRUE]
  ELSE IF draft = "deadline"
    THEN [sw |-> <<Prop("supported", JBool(FALSE)),
                   Prop("error", JStr("SharedWorker is not defined"))>>,
          started |-> FALSE]
  ELSE [sw |-> <<Prop("supported", JBool(FALSE))>>, started |-> FALSE]

\* const fp = {...}: the properties are evaluated in order and nothing
\* catches what one of them throws.  The property sharedWorker refers to
\* the object sharedWorkerFingerprint; the model fills it in when fp is
\* serialized.
BuildFp(env) ==
  LET c == GetCanvasFingerprint(env)
      k == ParseCookies(env)
      w == WorkerSupport(env)
  IN IF ~c.ok \/ ~k.ok \/ ~w.ok THEN Threw
     ELSE Value(<<Prop("origin", JStr("/logs")), Prop("canvas", c.v),
                  Prop("cookies", k.v), Prop("sharedWorker", JNull),
                  Prop("workerSupport", w.v),
                  Prop("graphicsInfo", JObj(<<Prop("webgl", WebGl(env))>>))>>)

\* What the worker posts: its fingerprint, or an error.
WorkerData == JObj(<<Prop("canvas", JStr("offscreen_supported"))>>)
Replies == {"fingerprint", "error"}

\* port.onmessage
OnMessage(sw, kind) ==
  IF kind = "fingerprint"
    THEN SetProp(SetProp(sw, "working", JBool(TRUE)), "workerData", WorkerData)
  ELSE SetProp(sw, "error", JStr("Worker failed"))

\* port.onerror
OnPortError(sw) == SetProp(sw, "error", JStr("Port error"))

\* The 5 s timeout that leaves the object alone.
OnDeadlineIdle(sw) == sw

\* The callback of the 5 s timeout.
OnDeadline(sw) ==
  IF ~Truthy(Lookup(sw, "working")) /\ ~Truthy(Lookup(sw, "error"))
    THEN SetProp(sw, "error", JStr("Timeout"))
  ELSE sw

\* The payload as it was when the script built fp.
SentPayloadAtLoad(c) ==
  JObj(SetProp(c.fp, "sharedWorker", JObj(SharedWorkerSetup(c.draft, c.env).sw)))

\* JSON.stringify({type: 'fingerprint', data: fp}) sees fp as it is when
\* onopen runs.
SentPayload(c) == JObj(SetProp(c.fp, "sharedWorker", JObj(c.sw)))

\* Everything but the collector.
serverVars == <<variant, running, now, logs, autoinc, pending, nissued, http, chan,
                wslast, prov, failed, page, sess>>

\* The script of the page runs, in a browser env.
RunCollector(draft, env) ==
  /\ col.st = "none"
  /\ LET w == SharedWorkerSetup(draft, env)
         b == BuildFp(env)
     IN col' = [st |-> IF b.ok THEN "ran" ELSE "aborted",
                draft |-> draft,
                env |-> env,
                fp |-> IF b.ok THEN b.v ELSE << >>,
                sw |-> w.sw,
                worker |-> IF w.started THEN "started" ELSE "none",
                timers |-> (IF w.started /\ draft = "deadline" THEN {"deadline"} ELSE {})
                           \cup (IF b.ok /\ draft = "deadline" THEN {"send"} ELSE {}),
                sock |-> IF b.ok /\ draft = "immediate" THEN "connecting" ELSE "none",
                sent |-> << >>,
                events |-> << >>]
  /\ UNCHANGED serverVars

\* The worker's message reaches the page.
WorkerReplies(kind) ==
  /\ col.worker = "started"
  /\ col' = [col EXCEPT !.sw = OnMessage(@, kind), !.worker = "replied",
                        !.events = Append(@, kind)]
  /\ UNCHANGED serverVars

\* The port of the worker reports an error.
PortErrors ==
  /\ col.worker \in {"started", "replied"}
  /\ \A i \in 1..Len(col.events) : col.events[i] # "port"
  /\ col' = [col EXCEPT !.sw = OnPortError(@), !.events = Append(@, "port")]
  /\ UNCHANGED serverVars

\* The 1 s timeout fires: the page creates its socket.
SendTimerFires ==
  /\ "send" \in col.timers
  /\ col' = [col EXCEPT !.timers = @ \ {"send"}, !.sock = "connecting",
                        !.events = Append(@, "send")]
  /\ UNCHANGED serverVars

\* The 5 s timeout fires; timeouts set in one turn fire in the order of
\* their delays, so the 1 s one has fired.
DeadlineFires ==
  /\ "deadline" \in col.timers
  /\ "send" \notin col.timers
  /\ col' = [col EXCEPT !.timers = @ \ {"deadline"}, !.sw = OnDeadline(@),
                        !.events = Append(@, "deadline")]
  /\ UNCHANGED serverVars

\* The socket opens: onopen serializes fp and sends the envelope.
ChannelOpens ==
  /\ col.sock = "connecting"
  /\ col' = [col EXCEPT !.sock = "open",
                        !.sent = Append(@, Envelope(SentPayload(col))),
                        !.events = Append(@, "open")]
  /\ UNCHANGED serverVars

\* The store's steps.
Store ==
  \/ \E o \in pending : ExecRun(o)
  \/ \E o \in pending : FailRun(o)
  \/ \E o \in pending : ExecAll(o)
  \/ \E o \in pending : FailAll(o)

\* The whole server, with the requests and messages of the scenarios.
Next ==
  \/ \E r \in CoreRequests, u \in UnparsedBodies, dt \in Delays : HttpRequest(r, u, dt)
  \/ \E c \in Channels : WsConnect(c) /\ UNCHANGED page
  \/ \E c \in Channels, m \in CoreMessages, dt \in Delays : WsMessage(c, m, dt) /\ UNCHANGED page
  \/ \E c \in Channels : WsClose(c) /\ UNCHANGED page
  \/ Store

Spec == Init /\ [][Next]_vars

\* The HTTP side alone, with every request.
NextHttp ==
  \/ \E r \in Requests, u \in UnparsedBodies, dt \in Delays : HttpRequest(r, u, dt)
  \/ Store

SpecHttp == Init /\ [][NextHttp]_vars

\* The WebSocket side alone, with the scenario's fingerprint and every
\* unusable message.
NextWs ==
  \/ \E c \in Channels : WsConnect(c) /\ UNCHANGED page
  \/ \E c \in Channels, m \in Messages, dt \in Delays : WsMessage(c, m, dt) /\ UNCHANGED page
  \/ \E c \in Channels : WsClose(c) /\ UNCHANGED page
  \/ \E o \in pending : ExecRun(o)
  \/ \E o \in pending : FailRun(o)

SpecWs == Init /\ [][NextWs]_vars

\* The WebSocket side alone, with a fingerprint envelope for every payload.
NextPayload ==
  \/ \E c \in Channels : WsConnect(c) /\ UNCHANGED page
  \/ \E c \in Channels, m \in PayloadMessages, dt \in Delays : WsMessage(c, m, dt) /\ UNCHANGED page
  \/ \E o \in pending : ExecRun(o)

SpecPayload == Init /\ [][NextPayload]_vars

\* The database is the file logs.db of the temporary directory, which outlives
\* the process: CREATE TABLE IF NOT EXISTS keeps the rows it holds.  A row of
\* the file written by the server, and a row whose body text was cut short
\* (the store does not validate the text it holds).
StoredRow ==
  NewRow(1, [method |-> JStr("GET"), url |-> JStr("/old"),
             headers |-> Text(Stringify(JObj(AcceptJson))),
             body |-> Text(EmptyText), timestamp |-> 0])
CorruptRow ==
  NewRow(1, [method |-> JStr("POST"), url |-> JStr("/cut"),
             headers |-> Text(Stringify(JObj(JsonBody))),
             body |-> Text(<<P("{"), S("a"), P(":")>>), timestamp |-> 0])

\* The tables the file can hold when the server starts.
StoredTables ==
  { << >>, <<StoredRow>>, <<CorruptRow>>,
    <<StoredRow, [CorruptRow EXCEPT !.id = 2]>>,
    <<CorruptRow, [StoredRow EXCEPT !.id = 2]>> }

\* The server starts on a file that holds rows.
InitStored ==
  /\ variant \in Variants
  /\ running = TRUE
  /\ now = 0
  /\ logs \in StoredTables
  /\ autoinc = Len(logs)
  /\ pending = {}
  /\ nissued = 0
  /\ http = << >>
  /\ chan = [c \in Channels |-> NoChannel]
  /\ wslast = [n |-> 0, out |-> 0]
  /\ prov = [j \in 1..Len(logs) |-> [src |-> "file", op |-> 0, from |-> [i |-> 0, at |-> 0]]]
  /\ failed = {}
  /\ page = [p \in Pages |-> NoPage]
  /\ col = NoCollector
  /\ sess = NoSessions

\* The HTTP side on such a file, with the requests that list the table.
NextStored ==
  \/ \E r \in {GetLogsJson, GetRoot}, u \in UnparsedBodies, dt \in Delays :
       HttpRequest(r, u, dt)
  \/ Store

SpecStored == InitStored /\ [][NextStored]_vars

\* The server with producers that send their own timestamps.
NextStamped ==
  \/ \E u \in UnparsedBodies, dt \in Delays : HttpRequest(PostStamped, u, dt)
  \/ \E c \in Channels : WsConnect(c) /\ UNCHANGED page
  \/ \E c \in Channels, m \in StampedMessages, dt \in Delays : WsMessage(c, m, dt) /\ UNCHANGED page
  \/ \E o \in pending : ExecRun(o)

SpecStamped == Init /\ [][NextStamped]_vars

\* The HTTP side when storage does not fail; the driver executes every
\* INSERT it was given (the fairness the append claim rests on).
NextLive ==
  \/ \E r \in {PostObject, GetLogsJson}, u \in UnparsedBodies, dt \in Delays :
       HttpRequest(r, u, dt)
  \/ \E o \in pending : ExecRun(o)
  \/ \E o \in pending : ExecAll(o)

SpecLive ==
  /\ Init /\ [][NextLive]_vars
  /\ WF_vars(\E o \in pending : ExecRun(o))

\* The pages and the WebSocket side of the server.
NextClient ==
  \/ \E p \in Pages : PageLoad(p)
  \/ \E p \in Pages : TimerFires(p)
  \/ \E p \in Pages, what \in {"key", "click"} : UserActs(p, what)
  \/ \E p \in Pages : Submit(p)
  \/ \E p \in Pages, s \in 1..MaxInputs : SocketOpens(p, s)
  \/ \E p \in Pages, s \in 1..MaxInputs : Deliver(p, s, 0)
  \/ \E p \in Pages, s \in 1..MaxInputs : SocketCloses(p, s)
  \/ \E o \in pending : ExecRun(o)

SpecClient == Init /\ [][NextClient]_vars

\* The log pages and the WebSocket side over connections that can fail, with
\* a client that sends text that is not JSON and a store that can fail.
NextLossy ==
  \/ \E p \in Pages : PageLoad(p)
  \/ \E p \in Pages : TimerFires(p)
  \/ \E p \in Pages, s \in 1..MaxInputs : SocketOpens(p, s)
  \/ \E p \in Pages, s \in 1..MaxInputs : SocketFails(p, s)
  \/ \E p \in Pages, s \in 1..MaxInputs, dt \in Delays : Deliver(p, s, dt)
  \/ \E p \in Pages, s \in 1..MaxInputs : MessageLost(p, s)
  \/ \E c \in Channels : WsConnect(c) /\ UNCHANGED page
  \/ \E c \in Channels, dt \in Delays : WsMessage(c, NotJson, dt) /\ UNCHANGED page
  \/ \E o \in pending : ExecRun(o)
  \/ \E o \in pending : FailRun(o)

SpecLossy == Init /\ [][NextLossy]_vars

\* Every input of the model, with a store that does not fail; the clock
\* stands still and the messages come over one channel.
NextAny ==
  \/ \E r \in AnyRequests, u \in UnparsedBodies : HttpRequest(r, u, 0)
  \/ WsConnect(1) /\ UNCHANGED page
  \/ \E m \in AnyMessages : WsMessage(1, m, 0) /\ UNCHANGED page
  \/ \E o \in pending : ExecRun(o)
  \/ \E o \in pending : ExecAll(o)

SpecAny == Init /\ [][NextAny]_vars

\* Browsers that view the HTML pages and run their script, with a store
\* that does not fail and executes every INSERT it was given.  The clock
\* stands still: no view looks at the time.
NextView ==
  \/ \E r \in {GetRoot, GetLogsHtml} : HttpRequest(r, Undefined, 0)
  \/ \E p \in Pages, i \in 1..MaxInputs : ViewLoads(p, i)
  \/ \E p \in Pages, s \in 1..MaxInputs : DeliverView(p, s, 0)
  \/ \E o \in pending : ExecRun(o)
  \/ \E o \in pending : ExecAll(o)

SpecView ==
  /\ Init /\ [][NextView]_vars
  /\ WF_vars(\E o \in pending : ExecRun(o))

\* The collector of one page, in every browser and with every order of the
\* worker's events, the timeouts and the opening of the channel.
NextCollector ==
  \/ \E draft \in CollectorDrafts, env \in Envs : RunCollector(draft, env)
  \/ \E kind \in Replies : WorkerReplies(kind)
  \/ PortErrors
  \/ SendTimerFires
  \/ DeadlineFires
  \/ ChannelOpens

SpecCollector == Init /\ [][NextCollector]_vars

(***************************************************************************)
(* Properties.                                                             *)
(***************************************************************************)
Rows == 1..Len(logs)

\* C1: whatever the interleaving of the appends of the middleware and of the
\* WebSocket handler, the ids of the N rows of the table are exactly 1..N,
\* without gap or duplicate, and ascending id order is the order in which the
\* store executed the inserts (logs keeps the rows in that order).
IdsAreOneToN ==
  /\ \A j \in Rows : logs[j].id = j
  /\ autoinc = Len(logs)

\* Both producers have rows in the table, and the store executed two inserts
\* in the reverse of the order in which they were issued.
IdsAreOneToNWitness ==
  /\ \E j, k \in Rows : prov[j].src = "http" /\ prov[k].src = "ws"
  /\ \E j, k \in Rows : j < k /\ prov[j].op > prov[k].op

\* C3: a row has method "WS" exactly when the WebSocket handler wrote it;
\* every row the middleware wrote has another method.
ProvenanceTagging ==
  \A j \in Rows : (logs[j].method = JStr("WS")) <=> (prov[j].src = "ws")

\* The table holds a row of each producer.
ProvenanceTaggingWitness ==
  /\ \E j \in Rows : prov[j].src = "ws" /\ logs[j].method = JStr("WS")
  /\ \E j \in Rows : prov[j].src = "http" /\ logs[j].method = JStr("POST")

(***************************************************************************)
(* HTTP requests and their rows.                                           *)
(***************************************************************************)
\* The rows the middleware wrote for request i.
HttpRows(i) == { j \in Rows : prov[j].src = "http" /\ prov[j].from.i = i }

\* Every INSERT issued so far has been executed, none failed.
AllStored == failed = {} /\ \A o \in pending : o.kind # "run"

\* The body a request carries, as a JSON value; nothing when it has no body
\* or does not declare JSON.
HasJsonBody(r) ==
  r.raw # EmptyText /\ Lookup(r.headers.o, "content-type") = JStr("application/json")
SentBody(r) == JsonParse(r.raw).v

\* The body of a request has no content: no JSON body, or one without keys.
NoContent(r) == ~HasJsonBody(r) \/ KeysLength(SentBody(r)) = 0

\* The JSON listings sent so far, as [list, order].
JsonListings ==
  { [list |-> http[i].resp.list, order |-> ListOrder(variant)] :
      i \in { k \in 1..Len(http) : http[k].resp.status = 200 /\ http[k].resp.type = "json" } }

\* The row entry k of a listing of n rows shows.
RowOf(order, n, k) == IF order = "DESC" THEN n - k + 1 ELSE k

\* C2: when storage does not fail, the N requests received have exactly N
\* rows once their inserts are executed, one for each request, with the method
\* and the url of that request; with no other producer the ids are a block.
NoWriteLost ==
  AllStored =>
    /\ \A i \in 1..Len(http) :
         /\ Cardinality(HttpRows(i)) = 1
         /\ \A j \in HttpRows(i) :
              /\ logs[j].method = JStr(http[i].req.method)
              /\ logs[j].url = JStr(http[i].req.path \o http[i].req.query)
    /\ \A j \in Rows : j > 1 => logs[j].id = logs[j - 1].id + 1

\* C7: every request received, whatever its method, path and body, was
\* observed by the logging middleware exactly once, before any route.
ObservedExactlyOnce ==
  \A i \in 1..Len(http) : http[i].observed = 1

\* C8, as stated: the row of a request has its method and its path with the
\* query string, and a JSON listing returns its headers and its body as they
\* were received (an empty object for a request without body).
HttpRecordRoundTrip ==
  /\ \A i \in 1..Len(http) : \A j \in HttpRows(i) :
       /\ logs[j].method = JStr(http[i].req.method)
       /\ logs[j].url = JStr(http[i].req.path \o http[i].req.query)
  /\ \A l \in JsonListings : \A k \in 1..Len(l.list) :
       LET j == RowOf(l.order, Len(l.list), k) IN
       prov[j].src = "http" =>
         LET r == http[prov[j].from.i].req IN
         /\ l.list[k].method = JStr(r.method)
         /\ l.list[k].headers = r.headers
         /\ l.list[k].body = IF HasJsonBody(r) THEN SentBody(r) ELSE JObj(<< >>)

\* C8, amended: as above, but a body without keys, {} or [], comes back as {}.
HttpRecordRoundTripKeys ==
  /\ \A i \in 1..Len(http) : \A j \in HttpRows(i) :
       /\ logs[j].method = JStr(http[i].req.method)
       /\ logs[j].url = JStr(http[i].req.path \o http[i].req.query)
  /\ \A l \in JsonListings : \A k \in 1..Len(l.list) :
       LET j == RowOf(l.order, Len(l.list), k) IN
       prov[j].src = "http" =>
         LET r == http[prov[j].from.i].req IN
         /\ l.list[k].method = JStr(r.method)
         /\ l.list[k].url = JStr(r.path \o r.query)
         /\ l.list[k].headers = r.headers
         /\ l.list[k].body = IF NoContent(r) THEN JObj(<< >>) ELSE SentBody(r)

\* A JSON listing shows the POST with its object body and its headers.
HttpRecordRoundTripWitness ==
  \E l \in JsonListings : \E k \in 1..Len(l.list) :
    /\ l.list[k].url = JStr("/submit")
    /\ l.list[k].body = JObj(<<Prop("a", JArr(<<JNum(1), JNull>>))>>)
    /\ l.list[k].headers = JObj(JsonBody)

\* C9: a request whose parsed body is absent or has no keys is stored with
\* the empty string as body, never the text {}, and a JSON listing returns {}
\* for it: no body and a literal {} read back alike.
EmptyBodyNormalized ==
  /\ \A i \in 1..Len(http) : \A j \in HttpRows(i) :
       NoContent(http[i].req) => logs[j].body = Text(EmptyText)
  /\ \A l \in JsonListings : \A k \in 1..Len(l.list) :
       LET j == RowOf(l.order, Len(l.list), k) IN
       logs[j].body = Text(EmptyText) => l.list[k].body = JObj(<< >>)

\* A JSON listing shows a request that sent {} and a request without body,
\* both with the body {}.
EmptyBodyNormalizedWitness ==
  \E l \in JsonListings : \E k1, k2 \in 1..Len(l.list) :
    /\ l.list[k1].url = JStr("/submit?x=1") /\ l.list[k1].body = JObj(<< >>)
    /\ l.list[k2].url = JStr("/logs") /\ l.list[k2].body = JObj(<< >>)
    /\ \A j \in Rows : logs[j].body = Text(EmptyText)

\* C10: in the step in which the middleware issues its append it also runs
\* the next stage: the request is routed with the append still pending, and
\* robots.txt, which reads nothing, is answered in that very step.
FireAndForget ==
  [][(Len(http') = Len(http) + 1 /\ http'[Len(http')].observed > 0) =>
       LET i == Len(http')
           e == http'[Len(http')]
       IN /\ e.routed
          /\ \E o \in pending' \ pending : o.kind = "run" /\ o.from.i = i
          /\ (e.req = GetRobots /\ variant # "login") => e.resp = RobotsTxt]_vars

\* robots.txt has been answered and the append of that request is pending.
FireAndForgetWitness ==
  \E i \in 1..Len(http) :
    /\ http[i].req = GetRobots /\ http[i].resp = RobotsTxt
    /\ \E o \in pending : o.kind = "run" /\ o.from.i = i

(***************************************************************************)
(* WebSocket messages and their rows.                                      *)
(***************************************************************************)
\* The message is an envelope of type "fingerprint".
IsFingerprint(m) ==
  LET pr == JsonParse(m) IN
  pr.ok /\ pr.v.t = "obj" /\ Lookup(pr.v.o, "type") = JStr("fingerprint")

\* The data of an envelope (undefined when it has none).
DataOf(m) == Lookup(JsonParse(m).v.o, "data")

\* The origin of a payload (undefined when it has none, or is no object).
OriginOf(p) == IF p.t = "obj" THEN Lookup(p.o, "origin") ELSE Undefined

\* The payload with the origin key removed.
MinusOrigin(p) ==
  IF p.t = "obj" THEN JObj(SelectSeq(p.o, LAMBDA q : q.k # "origin")) ELSE p

\* The url column holds the origin (NULL when there is none).
UrlIs(url, origin) == IF origin = Undefined THEN url = SqlNull ELSE url = origin

\* The rows the WebSocket handler wrote.
WsRows == { j \in Rows : prov[j].src = "ws" }

\* C4, as stated: for any payload sent in a fingerprint envelope, object or
\* not, the stored row has url equal to the payload's origin and a body that
\* re-parses to the payload with the origin key removed.
PayloadRoundTrip ==
  \A j \in WsRows :
    LET p == DataOf(prov[j].from.message) IN
    /\ UrlIs(logs[j].url, OriginOf(p))
    /\ logs[j].body.t = "text"
    /\ JsonParse(logs[j].body.x) = [ok |-> TRUE, v |-> MinusOrigin(p)]

\* C4, amended: in the drafts that take origin out of data, the row of a
\* payload that is a JSON object whose origin, if any, is a string has url
\* equal to that origin and a body that re-parses to the payload without
\* origin; the row of an array, a string or a number has a body that
\* re-parses to an object, not to the payload.  The JSON-only draft stores the
\* url "/fingerprint" and the whole payload.
PayloadRoundTripObjects ==
  \A j \in WsRows :
    LET p == DataOf(prov[j].from.message) IN
    IF variant = "jsonOnly"
    THEN /\ logs[j].url = JStr("/fingerprint")
         /\ JsonParse(logs[j].body.x) = [ok |-> TRUE, v |-> p]
    ELSE IF p.t = "obj"
    THEN /\ OriginOf(p).t \in {"undefined", "str"} => UrlIs(logs[j].url, OriginOf(p))
         /\ JsonParse(logs[j].body.x) = [ok |-> TRUE, v |-> MinusOrigin(p)]
    ELSE /\ logs[j].url = SqlNull
         /\ JsonParse(logs[j].body.x).ok
         /\ JsonParse(logs[j].body.x).v.t = "obj"

\* The payload of scenario B is stored with url "/" and a body that re-parses
\* to userAgent and screen.
PayloadRoundTripWitness ==
  \E j \in WsRows :
    /\ prov[j].from.message = Envelope(ScenarioB)
    /\ logs[j].url = JStr("/")
    /\ JsonParse(logs[j].body.x).v =
         JObj(<<Prop("userAgent", JStr("X")),
                Prop("screen", JObj(<<Prop("width", JNum(1920))>>))>>)

\* The statements the last step issued.
Issued == pending' \ pending

\* The last step received a message.
Received == wslast'.n # wslast.n

\* C5, as stated: every message whose envelope has type "fingerprint" makes
\* the handler issue exactly one INSERT with method "WS", url = data.origin,
\* headers "{}", body = the serialized data without origin, and the time of
\* receipt, whatever was received before.
IngestEveryFingerprint ==
  [][(Received /\ IsFingerprint(wslast'.message)) =>
       LET p == DataOf(wslast'.message) IN
       \E o \in Issued :
         /\ Issued = {o}
         /\ o.params = [method |-> JStr("WS"), url |-> OriginOf(p),
                        headers |-> Text(<<P("{"), P("}")>>),
                        body |-> Text(Stringify(MinusOrigin(p))),
                        timestamp |-> now']]_vars

\* C5, amended: the same for every fingerprint envelope whose data is a JSON
\* object, in the drafts that take origin out of data.
IngestObjectFingerprint ==
  [][(Received /\ IsFingerprint(wslast'.message) /\ variant # "jsonOnly"
      /\ DataOf(wslast'.message).t = "obj") =>
       LET p == DataOf(wslast'.message) IN
       \E o \in Issued :
         /\ Issued = {o}
         /\ o.params = [method |-> JStr("WS"), url |-> OriginOf(p),
                        headers |-> Text(<<P("{"), P("}")>>),
                        body |-> Text(Stringify(MinusOrigin(p))),
                        timestamp |-> now']]_vars

\* The second message received is a fingerprint with an object as data, it
\* came after the clock moved, and its INSERT is pending with that time.
IngestObjectFingerprintWitness ==
  /\ variant # "jsonOnly"
  /\ wslast.n = 2 /\ now = 1
  /\ \E o \in pending :
       /\ o.kind = "run" /\ o.from.n = 2 /\ o.params.timestamp = 1
       /\ DataOf(o.from.message).t = "obj"

\* The channels that are open.
OpenChannels == { c \in Channels : chan[c].st = "open" }

\* C6, as stated: a message that is not JSON, or has another type, or is
\* null, or is a fingerprint envelope whose data is missing or null, issues
\* no INSERT, leaves the table as it is and leaves every channel open.
UnusableDiscarded ==
  [][(Received /\ wslast'.message \in UnusableMessages) =>
       /\ Issued = {} /\ logs' = logs
       /\ \A c \in OpenChannels : chan'[c].st = "open"]_vars

\* C6, amended: the same in the drafts that take origin out of data; in the
\* JSON-only draft for the messages that are not a fingerprint envelope.  In
\* every draft the channel stays open, and the fingerprint of scenario B is
\* ingested on any open channel, whatever the channel discarded before.
UnusableDiscardedByDraft ==
  [][Received =>
       /\ \A c \in OpenChannels : chan'[c].st = "open"
       /\ (wslast'.message \in UnusableMessages
           /\ (variant # "jsonOnly" \/ ~IsFingerprint(wslast'.message)))
          => (Issued = {} /\ logs' = logs)
       /\ wslast'.message = Envelope(ScenarioB)
          => \E o \in Issued : o.kind = "run" /\ o.from.n = wslast'.n]_vars

\* A channel that discarded a fingerprint envelope without data has then
\* carried a fingerprint that was ingested.
UnusableDiscardedByDraftWitness ==
  /\ variant # "jsonOnly"
  /\ \E c \in Channels : chan[c].st = "open" /\ chan[c].seen = "recovered"
  /\ \E o \in pending : o.kind = "run" /\ o.from.n = 2

(***************************************************************************)
(* Storage errors.                                                         *)
(***************************************************************************)
\* The statements that failed in the last step.
FailedNow == failed' \ failed

\* C11: a storage error during an append, of the middleware or of the
\* WebSocket handler, with or without a completion callback, is swallowed:
\* the server keeps running, so that requests in flight are answered and later
\* ones served, every channel stays as it is, and the log is unchanged.
AppendErrorSwallowed ==
  [][\A o \in pending : (o.kind = "run" /\ o.op \in FailedNow) =>
       /\ running'
       /\ chan' = chan
       /\ http' = http
       /\ logs' = logs /\ autoinc' = autoinc]_vars

\* C12: a storage error during the whole-table read is answered with status
\* 500 and no listing, on "/logs" and on "/", and changes nothing else: the
\* log, the other requests, the channels and the server are as before.
ReadErrorSurfaced ==
  [][\A o \in pending : (o.kind = "all" /\ o.op \in FailedNow) =>
       /\ http'[o.req].resp.status = 500
       /\ "list" \notin DOMAIN http'[o.req].resp
       /\ \A i \in 1..Len(http) : i # o.req => http'[i] = http[i]
       /\ Len(http') = Len(http)
       /\ logs' = logs /\ autoinc' = autoinc /\ prov' = prov
       /\ running' = running /\ chan' = chan
       /\ pending' = pending \ {o}]_vars

\* The read of a GET /logs and the read of a GET / both failed and both
\* requests were answered 500.
ReadErrorSurfacedWitness ==
  /\ \E i \in 1..Len(http) : http[i].req.path = "/logs" /\ http[i].resp.status = 500
  /\ \E i \in 1..Len(http) : http[i].req.path = "/" /\ http[i].resp.status = 500
  /\ running

\* The texts of a row parse.
Parseable(row) == ReparseHeaders(row.headers).ok /\ ReparseBody(row.body).ok

\* C13: when a stored row has headers or body text that is not JSON, the
\* JSON listing treats it as an error of that row: the request is answered
\* with a listing that holds the other rows, and the server keeps running.
CorruptRecordTolerated ==
  [][\A o \in pending :
       (o.kind = "all" /\ o.view = "json" /\ o \notin pending' /\ o.op \notin FailedNow) =>
         /\ running'
         /\ http'[o.req].resp.status = 200
         /\ \A j \in Rows : Parseable(logs[j]) =>
              \E k \in 1..Len(http'[o.req].resp.list) :
                /\ http'[o.req].resp.list[k].method = logs[j].method
                /\ http'[o.req].resp.list[k].url = logs[j].url]_vars

(***************************************************************************)
(* Timestamps.                                                             *)
(***************************************************************************)
\* Two payloads are equal but for the timestamp the client put in them.
SameButTimestamp(p, q) ==
  /\ p.t = "obj" /\ q.t = "obj"
  /\ Without(p.o, "timestamp") = Without(q.o, "timestamp")

\* C14: the timestamp of every row is the server's time when the request or
\* the message arrived, never a value of the producer: two fingerprints that
\* differ only in the timestamp inside data and arrive at the same server time
\* have rows with the same timestamp, and the client's value is in the body.
TimestampByServer ==
  /\ \A j \in Rows : logs[j].timestamp = prov[j].from.at
  /\ \A j, k \in WsRows :
       LET p == DataOf(prov[j].from.message)
           q == DataOf(prov[k].from.message)
       IN (SameButTimestamp(p, q) /\ prov[j].from.at = prov[k].from.at)
            => logs[j].timestamp = logs[k].timestamp
  /\ \A j \in WsRows :
       LET p == DataOf(prov[j].from.message) IN
       GetProp(JsonParse(logs[j].body.x).v, "timestamp").v = Lookup(p.o, "timestamp")

\* Two fingerprints with different client timestamps arrived at the same
\* server time: their rows have that server time and bodies that differ.
TimestampByServerWitness ==
  \E j, k \in WsRows :
    /\ DataOf(prov[j].from.message) = StampedA
    /\ DataOf(prov[k].from.message) = StampedB
    /\ logs[j].timestamp = logs[k].timestamp
    /\ logs[j].body # logs[k].body

(***************************************************************************)
(* Listings.                                                               *)
(***************************************************************************)
\* The requests that were answered with a listing in the last step.
ListedNow ==
  { i \in 1..Len(http) :
      /\ http[i].resp = NoResp
      /\ http'[i].resp.status = 200 /\ "list" \in DOMAIN http'[i].resp }

\* The id of the row that entry k of a listing of n rows shows.
IdAt(order, n, k) == IF order = "DESC" THEN n - k + 1 ELSE k

\* C15: a listing, JSON or HTML, shows every row of the table, none left
\* out, in the order of the ids, descending in the content-negotiated drafts
\* and ascending in the JSON-only draft: entry k is the row with the k-th
\* largest (smallest) id, whatever the timestamps are.
ListingInIdOrder ==
  [][\A i \in ListedNow :
       LET l == http'[i].resp.list
           n == Len(l)
       IN /\ n = Len(logs)
          /\ \A k \in 1..n : \E j \in Rows :
               /\ logs[j].id = IdAt(ListOrder(variant), n, k)
               /\ l[k].method = logs[j].method
               /\ l[k].url = logs[j].url
               /\ l[k].timestamp = logs[j].timestamp]_vars

\* A listing of two rows whose order by id is the reverse of their order by
\* timestamp.
ListingInIdOrderWitness ==
  \E i \in 1..Len(http) :
    /\ http[i].resp.status = 200 /\ "list" \in DOMAIN http[i].resp
    /\ Len(http[i].resp.list) = 2
    /\ IF ListOrder(variant) = "DESC"
       THEN http[i].resp.list[1].timestamp < http[i].resp.list[2].timestamp
       ELSE http[i].resp.list[1].timestamp > http[i].resp.list[2].timestamp

(***************************************************************************)
(* The log as a whole.                                                     *)
(***************************************************************************)
\* C16: the log is append-only: whatever the step, a request, a message, a
\* statement executed or failed, every row that was in the table is still
\* in it, with the same id and the same columns; a step that answers a
\* listing, or fails to, leaves the table as it was.
AppendOnly ==
  [][/\ Len(logs') >= Len(logs)
     /\ \A j \in Rows : logs'[j] = logs[j]
     /\ (\E o \in pending : o.kind = "all" /\ o \notin pending') => logs' = logs
    ]_vars

\* The table holds two rows, of both producers, and a listing of it was
\* answered.
AppendOnlyWitness ==
  /\ Len(logs) = 2
  /\ \E j, k \in Rows : prov[j].src = "http" /\ prov[k].src = "ws"
  /\ \E i \in 1..Len(http) : http[i].resp.status = 200 /\ "list" \in DOMAIN http[i].resp

\* C17: ids follow issue order: when a handler issued its append before
\* another handler issued its own and both rows are stored, the first has the
\* smaller id, whatever the order in which the driver executed the inserts.
IdsFollowIssueOrder ==
  \A j, k \in Rows : prov[j].op < prov[k].op => logs[j].id < logs[k].id

(***************************************************************************)
(* Appends racing with listings.                                           *)
(***************************************************************************)
\* No INSERT is pending.
NoRunPending == \A o \in pending : o.kind # "run"

\* The listing of request i holds the row of that very request.
ListsItself(i) ==
  /\ http[i].resp.status = 200 /\ "list" \in DOMAIN http[i].resp
  /\ \E j \in HttpRows(i) : j <= Len(http[i].resp.list)

\* C18: when storage does not fail every issued append completes in the end
\* (again and again no INSERT is pending, and an INSERT leaves the driver
\* only with its row stored), and a listing holds every row whose append had
\* completed when the listing was started; the rows whose append was pending
\* then may be in it or not.
EventuallyConsistent ==
  /\ []<>NoRunPending
  /\ [][/\ \A o \in pending : (o.kind = "run" /\ o \notin pending') =>
            \E j \in 1..Len(logs') : prov'[j].op = o.op
        /\ \A o \in pending : (o.kind = "all" /\ o.req \in ListedNow) =>
            /\ Len(http'[o.req].resp.list) >= o.had
            /\ Len(http'[o.req].resp.list) <= Len(logs)]_vars

\* Every append completed; a GET /logs was answered with a listing that
\* holds its own row, another one with a listing that does not, and a row
\* that was stored before the second listing started is in it.
EventuallyConsistentWitness ==
  /\ pending = {}
  /\ \E i, k \in 1..Len(http) :
       /\ http[i].req = GetLogsJson /\ http[k].req = GetLogsJson
       /\ http[i].resp.status = 200 /\ ~ListsItself(i)
       /\ ListsItself(k) /\ Len(http[k].resp.list) = 2

(***************************************************************************)
(* Channels.                                                               *)
(***************************************************************************)
\* An INSERT of the WebSocket handler failed in the last step.
IngestionFailedNow ==
  \E o \in pending : o.kind = "run" /\ o.src = "ws" /\ o.op \in FailedNow

\* C19: channels are independent: after a message that was discarded or
\* failed to parse on one channel, and after an ingestion that failed, the
\* server is running, every other channel is as it was, and every open
\* channel is still open, so that a fingerprint sent on any of them is
\* received and ingested.
ChannelsIndependent ==
  [][(Received \/ IngestionFailedNow) =>
       /\ running'
       /\ Cardinality({ d \in Channels : chan'[d] # chan[d] }) <= 1
       /\ \A d \in OpenChannels : chan'[d].st = "open"]_vars

(***************************************************************************)
(* The client.                                                             *)
(***************************************************************************)
\* The sockets of page p that have opened, each of which sent its message.
Opened(p) ==
  { s \in 1..Len(page[p].socks) : page[p].socks[s].st \notin {"connecting", "failed"} }

PageRows ==
  { j \in Rows : prov[j].src = "ws" /\ prov[j].from.message = PageMessage(variant) }

\* The sockets of page p whose envelope the server has received.
Delivered(p) ==
  { s \in 1..Len(page[p].socks) : page[p].socks[s].st \in {"delivered", "closed"} }

\* C21: the server never sends a message on a channel, whatever became of
\* the message it received (ingested, discarded, failed to be stored); a
\* page whose socket failed to open or whose message was lost creates no
\* other socket and sends nothing again, and the log has a row for an
\* envelope only when a socket delivered it: none for that page load.
NoAckNoRetry ==
  /\ wslast.out = 0
  /\ \A p \in Pages :
       /\ page[p].st = "loaded" =>
            Len(page[p].socks) + page[p].timers = 1 + page[p].submits
       /\ \A s \in 1..Len(page[p].socks) :
            /\ page[p].socks[s].sent <= 1
            /\ page[p].socks[s].st = "failed" => page[p].socks[s].sent = 0
  /\ \A j \in PageRows :
       \E p \in Pages : \E s \in Delivered(p) : page[p].socks[s].n = prov[j].from.n
  /\ \A p \in Pages :
       Delivered(p) = {} =>
         ~ \E j \in PageRows, s \in 1..Len(page[p].socks) :
               page[p].socks[s].n = prov[j].from.n

\* The message of one page was lost, the server discarded a text that is
\* not JSON, and the envelope of another page failed to be stored.
NoAckNoRetryWitness ==
  /\ \E p \in Pages :
       /\ page[p].timers = 0
       /\ Len(page[p].socks) = 1
       /\ page[p].socks[1].st = "lost"
  /\ \E c \in Channels : chan[c].seen = "discarded"
  /\ failed # {}
  /\ wslast.n = 2

(***************************************************************************)
(* The collector.                                                          *)
(***************************************************************************)
\* Event a happened, and before event b did.
Happened(a) == \E i \in 1..Len(col.events) : col.events[i] = a
Before(a, b) ==
  \E i, j \in 1..Len(col.events) : i < j /\ col.events[i] = a /\ col.events[j] = b

\* The worker was started and the page has heard nothing of it.
WorkerSilent ==
  col.worker = "started" /\ ~Happened("port")

TimedOut == Lookup(col.sw, "error") = JStr("Timeout")

\* C22, as stated: the channel is opened after a fixed delay whether or not
\* the worker has answered, and a worker that has neither answered nor
\* reported an error by the deadline is marked as failed with a timeout
\* error.
WorkerNeverBlocksSend ==
  /\ (col.st = "ran" /\ col.sock = "none") => ENABLED SendTimerFires
  /\ col.sock # "none" => Happened("send")
  /\ (WorkerSilent /\ "deadline" \notin col.timers) => TimedOut

\* C22, amended: the worker never blocks the send.  In the drafts with a
\* deadline the socket is created by the 1 s timeout, which is pending as
\* long as there is no socket, whatever the worker did, and a worker still
\* silent when the 5 s timeout fires is marked with the timeout error; in
\* the other draft the script creates the socket itself and a silent worker
\* is never marked.
WorkerNeverBlocksSendByDraft ==
  /\ col.st = "ran" /\ col.draft = "deadline" =>
       /\ col.sock = "none" => ENABLED SendTimerFires
       /\ col.sock # "none" => Happened("send")
  /\ col.draft = "deadline" =>
       ((WorkerSilent /\ "deadline" \notin col.timers) => TimedOut)
  /\ col.st = "ran" /\ col.draft = "immediate" =>
       /\ col.sock # "none"
       /\ ~Happened("send")
  /\ col.draft = "immediate" => col.timers = {} /\ ~TimedOut

\* The worker never answered: the channel opened all the same, and the
\* deadline marked the worker.
WorkerNeverBlocksSendWitness ==
  /\ col.draft = "deadline"
  /\ WorkerSilent
  /\ col.sock = "open"
  /\ TimedOut

\* C23: whatever signal sources fail, the collector produces a payload and
\* sends it: the script is never cut short.
CollectorDegrades ==
  col.st # "aborted"

\* C28: the sharedWorker object never has working = true together with the
\* timeout error.
WorkerStateConsistent ==
  ~ (Lookup(col.sw, "working") = JBool(TRUE) /\ TimedOut)

\* The sharedWorker property of the payload the page sent.
SentSharedWorker == Lookup(DataOf(col.sent[1]).o, "sharedWorker")

\* C29: the payload is serialized when the channel opens: what was sent has
\* the worker's data exactly when the worker's fingerprint came before the
\* opening, and has the timeout error exactly when the deadline came
\* before it; the page sends one message, and what it sent never changes.
SerializedAtOpen ==
  /\ [](/\ Len(col.sent) <= 1
        /\ col.sent # << >> =>
             /\ Lookup(SentSharedWorker.o, "workerData") # Undefined
                  <=> Before("fingerprint", "open")
             /\ Lookup(SentSharedWorker.o, "error") = JStr("Timeout")
                  => Before("deadline", "open"))
  /\ [][col.sent # << >> => col.sent' = col.sent]_vars

\* The worker's fingerprint came after the send: the page's object has the
\* data, the payload that was sent has not.
SerializedAtOpenWitness ==
  /\ Before("open", "fingerprint")
  /\ Lookup(col.sw, "workerData") = WorkerData
  /\ Lookup(SentSharedWorker.o, "workerData") = Undefined

(***************************************************************************)
(* Viewing the log.                                                        *)
(***************************************************************************)
\* The requests answered with the HTML listing.
HtmlViews ==
  { i \in 1..Len(http) : "list" \in DOMAIN http[i].resp /\ http[i].resp.type = "html" }

\* The listing request i was answered with, oldest row first.
ListingOf(i) ==
  IF ListOrder(variant) = "ASC" THEN http[i].resp.list ELSE Reverse(http[i].resp.list)

\* The sockets whose envelope, sent by the script of a shown page, was
\* delivered.
ViewSockets ==
  { ps \in Pages \X (1..MaxInputs) :
      page[ps[1]].view > 0 /\ ps[2] \in Delivered(ps[1]) }

\* The path of the page whose script created the socket.
ViewPath(ps) == http[page[ps[1]].view].req.path

\* The INSERT the handler issued for the envelope of the socket, pending or
\* executed, has u(path) as its url.
ViewAppend(ps, u(_)) ==
  LET n == page[ps[1]].socks[ps[2]].n IN
  \/ \E o \in pending :
       o.kind = "run" /\ o.src = "ws" /\ o.from.n = n /\ o.params.url = u(ViewPath(ps))
  \/ \E j \in WsRows : prov[j].from.n = n /\ logs[j].url = u(ViewPath(ps))

\* The row of the envelope of the socket is in the table.
ViewStored(ps) ==
  \E j \in WsRows : prov[j].from.n = page[ps[1]].socks[ps[2]].n

\* The url the handler stores for the page at path.
UrlByDraft(path) == IF variant = "jsonOnly" THEN JStr("/fingerprint") ELSE JStr(path)

\* C24, as stated: each HTML view appends one HTTP record and, its
\* collector's message delivered, one WS record whose url is the path of the
\* viewed page; two successive HTML views never return the same listing.
ViewingAddsRecords ==
  /\ \A i \in 1..Len(http) : http[i].observed = 1
  /\ \A ps \in ViewSockets : ViewAppend(ps, LAMBDA path : JStr(path))
  /\ \A i, j \in HtmlViews : i \in http[j].after => ListingOf(i) # ListingOf(j)

\* C24, amended: each HTML view issues the append of one HTTP record and,
\* its collector's message delivered, of one WS record, which the store
\* eventually holds; the url of the WS record is the path of the viewed page
\* in the drafts that take origin out of the payload and "/fingerprint" in
\* the JSON-only draft.  The listing of a later view starts with the listing
\* of an earlier one and holds every row that was in the table when it was
\* requested: the two are equal exactly when no append completed between
\* the two reads.
ViewingIssuesAppends ==
  /\ [](/\ \A i \in 1..Len(http) : http[i].observed = 1
        /\ \A ps \in ViewSockets : ViewAppend(ps, UrlByDraft)
        /\ \A i, j \in HtmlViews :
             i \in http[j].after =>
               /\ Len(ListingOf(i)) <= Len(ListingOf(j))
               /\ SubSeq(ListingOf(j), 1, Len(ListingOf(i))) = ListingOf(i))
  /\ []<>(\A ps \in ViewSockets : ViewStored(ps))
  /\ [][\A o \in pending : (o.kind = "all" /\ o.req \in ListedNow) =>
           /\ Len(http'[o.req].resp.list) = Len(logs)
           /\ Len(logs) >= o.had]_vars

\* The log page at /logs was viewed and the record of its collector's
\* message stored, with the path as url.
ViewingIssuesAppendsWitness ==
  /\ variant = "negotiated"
  /\ \E ps \in ViewSockets :
       /\ ViewPath(ps) = "/logs"
       /\ \E j \in WsRows : /\ prov[j].from.n = page[ps[1]].socks[ps[2]].n
                             /\ logs[j].url = JStr("/logs")
       /\ \E j \in Rows : prov[j].src = "http" /\ prov[j].from.i = page[ps[1]].view

\* Two successive views returned the same listing.
SameListingTwice ==
  \E i, j \in HtmlViews : i \in http[j].after /\ ListingOf(i) = ListingOf(j)

(***************************************************************************)
(* Fingerprints without origin.                                            *)
(***************************************************************************)
\* The last step received a fingerprint envelope whose data has no origin.
ReceivedNoOrigin ==
  /\ Received
  /\ IsFingerprint(wslast'.message)
  /\ OriginOf(DataOf(wslast'.message)) = Undefined

\* The url of the row of a fingerprint without origin: NULL where the handler
\* takes origin out of data (undefined is bound as NULL), the handler's
\* literal in the JSON-only draft.
UrlWithoutOrigin == IF variant = "jsonOnly" THEN JStr("/fingerprint") ELSE Undefined

\* The last step issued exactly one INSERT, for a WS record with the url of
\* a fingerprint without origin and a body that re-parses to p.
IssuedWhole(p) ==
  \E o \in Issued :
    /\ Issued = {o}
    /\ o.params.method = JStr("WS")
    /\ o.params.url = UrlWithoutOrigin
    /\ o.params.body.t = "text"
    /\ JsonParse(o.params.body.x) = [ok |-> TRUE, v |-> p]

\* The handler neither failed nor closed a channel.
NoHarm ==
  /\ running'
  /\ \A c \in OpenChannels : chan'[c].st = "open"

\* C25, as stated: a fingerprint whose data has no origin key is ingested as
\* exactly one WS record whose body re-parses to the whole data and whose
\* url is the default; it is never rejected and causes no failure.
OriginAbsenceTolerated ==
  [][ReceivedNoOrigin => (IssuedWhole(DataOf(wslast'.message)) /\ NoHarm)]_vars

\* C25, amended: the same for data that is a JSON object, the default url
\* being NULL in the drafts that take origin out of data and "/fingerprint"
\* in the JSON-only draft.  In the former, data that is an array, a string
\* or a number gives one record whose body re-parses to an object, not to
\* the data, and data that is null is discarded; the JSON-only draft stores
\* any data whole.  No such message closes the channel or ends the server.
OriginAbsenceToleratedObjects ==
  [][ReceivedNoOrigin =>
       LET p == DataOf(wslast'.message) IN
       /\ NoHarm
       /\ (p.t = "obj" \/ variant = "jsonOnly") => IssuedWhole(p)
       /\ (p.t = "null" /\ variant # "jsonOnly") => Issued = {}
       /\ (p.t \in {"arr", "str", "num"} /\ variant # "jsonOnly") =>
            \E o \in Issued :
              /\ Issued = {o}
              /\ o.params.url = UrlWithoutOrigin
              /\ JsonParse(o.params.body.x).ok
              /\ JsonParse(o.params.body.x).v.t = "obj"
              /\ JsonParse(o.params.body.x).v # p]_vars

\* An object without origin was received where origin is taken out of data,
\* and its row is stored with url NULL and the whole object as body.
OriginAbsenceToleratedWitness ==
  /\ variant # "jsonOnly"
  /\ \E j \in WsRows :
       LET p == DataOf(prov[j].from.message) IN
       /\ p.t = "obj"
       /\ OriginOf(p) = Undefined
       /\ logs[j].url = SqlNull
       /\ JsonParse(logs[j].body.x) = [ok |-> TRUE, v |-> p]

(***************************************************************************)
(* Records the program wrote.                                              *)
(***************************************************************************)
\* C26: each record appended by the middleware or by the channel handler has
\* headers that are JSON text and a body that is empty, absent or JSON text,
\* whatever the client sent: every row of the table and every INSERT still
\* pending re-parses, so no listing fails on a record: the server, which a
\* listing that fails to re-parse would end, keeps running.
WrittenRecordsReparse ==
  /\ \A j \in Rows : prov[j].src \in {"http", "ws"} => Parseable(logs[j])
  /\ \A o \in pending : o.kind = "run" => Parseable(NewRow(0, o.params))
  /\ running

\* A listing was answered that shows a record with a body, and the table
\* holds a record of the middleware or of the handler whose body is not
\* empty.
WrittenRecordsReparseWitness ==
  /\ \E i \in 1..Len(http) :
       /\ "list" \in DOMAIN http[i].resp
       /\ \E k \in 1..Len(http[i].resp.list) : http[i].resp.list[k].body # JObj(<< >>)
  /\ \E j \in Rows : Truthy(logs[j].body)

(***************************************************************************)
(* The objects explorer's stored sessions.                                 *)
(***************************************************************************)
MaxCalls == 52
MaxClock == 1
\* "Keep only last 50 sessions".
SessionCap == 50

\* getStoredSessions(): the parsed item, or [] when there is none.
GetStoredSessions(item) ==
  IF item = JNull \/ item.x = EmptyText THEN [ok |-> TRUE, v |-> JArr(<< >>)]
  ELSE JsonParse(item.x)

\* saveSessions(sessions): the text setItem stores.
SaveSessions(sessions) == Text(Stringify(JArr(sessions)))

\* currentData at time t.  timestamp, date and time are texts of the same
\* instant as id; the explorer's objects are the same at every call.
CurrentData(t) ==
  JObj(<<Prop("id", JNum(t)), Prop("timestamp", JNum(t)),
         Prop("browserObjects", JObj(<< >>))>>)

\* sessions.unshift(x).
Unshift(a, x) == <<x>> \o a
\* sessions.splice(n): the elements from index n on are removed.
Splice(a, n) == SubSeq(a, 1, IF Len(a) < n THEN Len(a) ELSE n)

\* KeepSessions that removes the first element when the list is too long.
KeepSessionsDropNewest(sessions, cur) ==
  LET a == Unshift(sessions, cur) IN
  IF Len(a) > SessionCap THEN Tail(a) ELSE a

\* The list storeCurrentSession saves: the new session first, cut to 50.
KeepSessions(sessions, cur) ==
  LET a == Unshift(sessions, cur) IN
  IF Len(a) > SessionCap THEN Splice(a, SessionCap) ELSE a

\* storeCurrentSession(), dt after the previous call.
StoreCurrentSession(dt) ==
  /\ variant = "negotiated"
  /\ Len(sess.saved) < MaxCalls
  /\ sess.now + dt <= MaxClock
  /\ LET got == GetStoredSessions(sess.item)
         cur == CurrentData(sess.now + dt)
     IN /\ got.ok /\ got.v.t = "arr"
        /\ sess' = [item |-> SaveSessions(KeepSessions(got.v.a, cur)),
                    now |-> sess.now + dt,
                    saved |-> Append(sess.saved, cur)]
  /\ UNCHANGED <<col, variant, running, now, logs, autoinc, pending, nissued, http,
               chan, wslast, prov, failed, page>>

\* storeCurrentSession() in a browser whose storage is full or closed:
\* setItem (or getItem) throws and the item stays.
StoreCurrentSessionThrows(dt) ==
  /\ variant = "negotiated"
  /\ sess.now + dt <= MaxClock
  /\ sess' = [sess EXCEPT !.now = sess.now + dt]
  /\ UNCHANGED <<col, variant, running, now, logs, autoinc, pending, nissued, http,
               chan, wslast, prov, failed, page>>

\* The explorer page, its button, its load timer and its console function.
NextExplorer ==
  \/ \E dt \in {0, 1} : StoreCurrentSession(dt)
  \/ \E dt \in {0, 1} : StoreCurrentSessionThrows(dt)

SpecExplorer == Init /\ [][NextExplorer]_vars

\* The sessions the item holds.
StoredSessions == GetStoredSessions(sess.item).v.a

\* C30: after any sequence of storeCurrentSession calls the stored list holds
\* at most 50 sessions, newest first, and they are the newest ones: with n
\* sessions stored so far, the list is the last min(n, 50) of them, the
\* latest first, so what was dropped is the oldest.
SessionsNewestFirst ==
  LET got == GetStoredSessions(sess.item)
      n == Len(sess.saved)
      m == IF n < SessionCap THEN n ELSE SessionCap
  IN /\ got.ok /\ got.v.t = "arr"
     /\ Len(got.v.a) = m
     /\ Len(got.v.a) <= 50
     /\ \A k \in 1..m : got.v.a[k] = sess.saved[n - k + 1]

\* More than 50 sessions were stored, the first of them at another time than
\* the last, and the list holds 50.
SessionsNewestFirstWitness ==
  /\ Len(sess.saved) > SessionCap
  /\ sess.saved[1] # sess.saved[Len(sess.saved)]
  /\ Len(StoredSessions) = SessionCap

(***************************************************************************)
(* Listings and the appends around them.                                   *)
(***************************************************************************)
\* C27: every listing is a consistent prefix of the log: a listing of n
\* entries shows the rows with the ids 1..n, each once and as the table has
\* it, so with the record of id k it has every record of a smaller id,
\* whatever appends were pending when it was read or completed since.  (A
\* SELECT that an INSERT overtakes shows the table before or after it, which
\* is what the two orders of the steps give.)
ListingIsPrefix ==
  \A i \in 1..Len(http) :
    "list" \in DOMAIN http[i].resp =>
      LET l == http[i].resp.list
          n == Len(l)
      IN /\ n <= Len(logs)
         /\ \A k \in 1..n : \E j \in Rows :
              /\ logs[j].id = IdAt(ListOrder(variant), n, k)
              /\ l[k] = JsonEntry(logs[j])

\* A listing of one entry read while the INSERT of the very request that
\* asked for it was pending: that record is now the second row.
ListingIsPrefixWitness ==
  \E i \in 1..Len(http) :
    /\ "list" \in DOMAIN http[i].resp
    /\ Len(http[i].resp.list) = 1
    /\ Len(logs) = 2
    /\ prov[2].src = "http" /\ prov[2].from.i = i

====
